---- MODULE Spec2Model ----
(***************************************************************************)
(* State-transition model of the decentralized voting program              *)
(* (src/src/lib.rs).  The state is the set of account buffers the program  *)
(* reads and writes; every instruction handler is one action that applies  *)
(* the handler's checks and writes in the order of the source.             *)
(*                                                                         *)
(* Conventions                                                             *)
(*  - An account buffer is [len, data]: its byte length and the record     *)
(*    serialized at its start.  A record is decodable when its serialized  *)
(*    form fits the buffer (the buffer may be longer than the record, as   *)
(*    in src/src/tests.rs, where 1000-byte buffers hold shorter records).  *)
(*    A fresh buffer is zero-filled, i.e. it holds the all-zero record.    *)
(*  - Option<T>: None is <<>>, Some(x) is <<x>>.                           *)
(*  - A Pubkey is <<b0, b1, t>>: bytes 0 and 1, bytes 2..7 zero, and t     *)
(*    standing for bytes 8..31.                                            *)
(*  - A String is modelled by its byte length, a Vec<u8> by its bytes.     *)
(*  - A handler that returns Err leaves the buffers as it wrote them up    *)
(*    to the failing check; a panic (slice index out of range) aborts the  *)
(*    call and nothing of it is kept.                                      *)
(***************************************************************************)
EXTENDS Integers, Sequences, FiniteSets, TLC

VARIABLES now, poll_account, vote_count_account, voter_registry_account,
          vote_account, delegation_account, token_balance_account, res, ops

vars == <<now, poll_account, vote_count_account, voter_registry_account,
          vote_account, delegation_account, token_balance_account, res, ops>>

(***************************************************************************)
(* Bounds of the model                                                     *)
(***************************************************************************)
\* the clock runs over 0..MaxTime
MaxTime == 3
\* instructions executed in one behaviour
MaxOps == 4
\* byte length of every account buffer before the first call
BufLen == 1200

\* the accounts of each kind that callers can pass
PollAccounts == {1}
VoteCountAccounts == {1, 2}
RegistryAccounts == {1, 2}
VoteAccounts == {1, 2}
DelegationAccounts == {1, 2}
BalanceAccounts == {1}

(***************************************************************************)
(* Basic values                                                            *)
(***************************************************************************)
None == <<>>
Some(x) == <<x>>
IsSome(o) == o /= <<>>
Unwrap(o) == o[1]

Max(a, b) == IF a >= b THEN a ELSE b
saturating_sub(a, b) == IF a >= b THEN a - b ELSE 0
\* u64::MAX is out of reach of every counter of the model
saturating_add(a, b) == a + b

ZeroKey == <<0, 0, 0>>
\* KeyA and KeyB differ in byte 1 by 32, so hash % 8192 is the same for both
KeyA == <<1, 0, 0>>
KeyB == <<1, 32, 0>>
KeyC == <<2, 0, 0>>
Token1 == <<7, 0, 0>>
Token2 == <<8, 0, 0>>

RECURSIVE SumSeq(_)
SumSeq(s) == IF s = <<>> THEN 0 ELSE s[1] + SumSeq(Tail(s))

SeqToSet(s) == {s[i] : i \in 1..Len(s)}

(***************************************************************************)
(* Records (lib.rs 20-128) and their all-zero values                       *)
(***************************************************************************)
ZeroPoll ==
  [id |-> 0, creator |-> ZeroKey, title |-> 0, description |-> 0,
   options |-> <<>>, start_time |-> 0, end_time |-> 0,
   is_private |-> FALSE, allow_revote |-> FALSE, is_active |-> FALSE,
   is_weighted |-> FALSE, allow_delegation |-> FALSE, is_encrypted |-> FALSE,
   decryption_key |-> None, weight_token |-> None, early_voter_bonus |-> 0]

ZeroVote ==
  [poll_id |-> 0, voter |-> ZeroKey, option_index |-> 0, timestamp |-> 0,
   weight |-> 0, delegated_to |-> None, encrypted_data |-> None,
   zk_proof |-> None, nonce |-> None]

ZeroVoteCount ==
  [poll_id |-> 0, counts |-> <<>>, total_voters |-> 0, last_updated |-> 0,
   is_finalized |-> FALSE]

\* voter_bitmap: len is the Vec's length in bytes, bits the set of set bits,
\* bit number = byte_index * 8 + bit_index
ZeroVoterRegistry ==
  [poll_id |-> 0, voter_bitmap |-> [len |-> 0, bits |-> {}], voters |-> <<>>]

ZeroDelegation ==
  [id |-> 0, delegator |-> ZeroKey, delegate |-> ZeroKey, poll_id |-> None,
   expiration |-> None, is_active |-> FALSE]

ZeroTokenBalance ==
  [owner |-> ZeroKey, token |-> ZeroKey, amount |-> 0, last_updated |-> 0]

(***************************************************************************)
(* Borsh layout: serialized length of each record in bytes                 *)
(***************************************************************************)
OptBytes(o) == IF IsSome(o) THEN 1 + 4 + Len(Unwrap(o)) ELSE 1
OptFixed(o, n) == IF IsSome(o) THEN 1 + n ELSE 1

PollSize(p) ==
  8 + 32 + (4 + p.title) + (4 + p.description)
    + (4 + 4 * Len(p.options) + SumSeq(p.options))
    + 8 + 8 + 6 + OptBytes(p.decryption_key) + OptFixed(p.weight_token, 32) + 1

VoteSize(v) ==
  8 + 32 + 1 + 8 + 8 + OptFixed(v.delegated_to, 32) + OptBytes(v.encrypted_data)
    + OptBytes(v.zk_proof) + OptBytes(v.nonce)

VoteCountSize(c) == 8 + (4 + 8 * Len(c.counts)) + 8 + 8 + 1

VoterRegistrySize(r) == 8 + (4 + r.voter_bitmap.len) + (4 + 32 * Len(r.voters))

DelegationSize(d) == 8 + 32 + 32 + OptFixed(d.poll_id, 8) + OptFixed(d.expiration, 8) + 1

TokenBalanceSize(b) == 32 + 32 + 8 + 8

(***************************************************************************)
(* Account buffers                                                         *)
(***************************************************************************)
\* T::try_from_slice(&account.data.borrow()) succeeds
Decodes(acc, size) == size <= acc.len

\* if data.len() > account.data.len() { account.realloc(..) }; copy_from_slice
write_realloc(acc, rec, size) == [len |-> Max(acc.len, size), data |-> rec]

\* account.data.borrow_mut()[..data.len()].copy_from_slice(&data): the slice
\* index panics when the buffer is shorter than the data
Fits(acc, size) == size <= acc.len
write_in_place(acc, rec) == [len |-> acc.len, data |-> rec]

(***************************************************************************)
(* The state as one record, so that a handler is a function from the       *)
(* state and the call's arguments to an error code and a state             *)
(***************************************************************************)
St ==
  [poll |-> poll_account, vote_count |-> vote_count_account,
   voter_registry |-> voter_registry_account, vote |-> vote_account,
   delegation |-> delegation_account, token_balance |-> token_balance_account]

Ret(e, s) == [err |-> e, st |-> s]

(***************************************************************************)
(* process_fee_transaction: tx is "ok", "undecodable" or "noinput"          *)
(***************************************************************************)
process_fee_transaction(tx) ==
  IF tx = "undecodable" THEN "InvalidFeeTransaction"
  ELSE IF tx = "noinput" THEN "InsufficientFees"
  ELSE "OK"

(***************************************************************************)
(* Voter registry                                                          *)
(***************************************************************************)
\* bytes 0..7 little-endian; bytes 2..7 are zero
hash_pubkey(pubkey) == pubkey[1] + pubkey[2] * 256

ByteIndex(voter) == (hash_pubkey(voter) % 8192) \div 8
BitIndex(voter) == (hash_pubkey(voter) % 8192) % 8

Position(s, x) ==
  IF \E i \in 1..Len(s) : s[i] = x
  THEN Some((CHOOSE i \in 1..Len(s) : s[i] = x /\ \A j \in 1..(i - 1) : s[j] /= x) - 1)
  ELSE None
\* find_voter_index that trusts a set bit without the scan of line 1588
find_voter_index_bitmap_only(registry, voter) ==
  IF ByteIndex(voter) < registry.voter_bitmap.len
  THEN IF (ByteIndex(voter) * 8 + BitIndex(voter)) \notin registry.voter_bitmap.bits
       THEN None
       ELSE Some(0)
  ELSE None

find_voter_index(registry, voter) ==
  IF ByteIndex(voter) < registry.voter_bitmap.len
  THEN IF (ByteIndex(voter) * 8 + BitIndex(voter)) \notin registry.voter_bitmap.bits
       THEN None
       ELSE Position(registry.voters, voter)
  ELSE None

\* add_voter_to_registry without the bitmap update of lines 1597-1605
add_voter_to_registry_unmarked(registry, voter) ==
  [registry EXCEPT !.voters = Append(registry.voters, voter)]

add_voter_to_registry(registry, voter) ==
  [registry EXCEPT
     !.voter_bitmap =
        [len |-> IF ByteIndex(voter) < registry.voter_bitmap.len
                 THEN registry.voter_bitmap.len
                 ELSE ByteIndex(voter) + 1,
         bits |-> registry.voter_bitmap.bits
                    \cup {ByteIndex(voter) * 8 + BitIndex(voter)}],
     !.voters = Append(registry.voters, voter)]

(***************************************************************************)
(* process_create_poll (lib.rs 485-650)                                    *)
(***************************************************************************)
\* OptionsValid without the limit of twenty options (line 541)
OptionsValid_unbounded(options) ==
  /\ Len(options) >= 1
  /\ \A i \in 1..Len(options) : options[i] >= 1 /\ options[i] <= 100

OptionsValid(options) ==
  /\ Len(options) >= 1 /\ Len(options) <= 20
  /\ \A i \in 1..Len(options) : options[i] >= 1 /\ options[i] <= 100

new_poll(t, a) ==
  [id |-> t + a.caller[1], creator |-> a.caller, title |-> a.title,
   description |-> a.description, options |-> a.options,
   start_time |-> a.start_time, end_time |-> a.end_time,
   is_private |-> a.is_private, allow_revote |-> a.allow_revote,
   is_active |-> TRUE, is_weighted |-> a.is_weighted,
   allow_delegation |-> a.allow_delegation, is_encrypted |-> a.is_encrypted,
   decryption_key |-> None, weight_token |-> a.weight_token,
   early_voter_bonus |-> a.early_voter_bonus]
\* new_vote_count with an empty counts vector
new_vote_count_empty(t, a) ==
  [poll_id |-> t + a.caller[1], counts |-> <<>>,
   total_voters |-> 0, last_updated |-> t, is_finalized |-> FALSE]

new_vote_count(t, a) ==
  [poll_id |-> t + a.caller[1], counts |-> [i \in 1..Len(a.options) |-> 0],
   total_voters |-> 0, last_updated |-> t, is_finalized |-> FALSE]

new_voter_registry(t, a) ==
  [poll_id |-> t + a.caller[1], voter_bitmap |-> [len |-> 1024, bits |-> {}],
   voters |-> <<>>]

\* create_poll_writes that puts the registry into registry account 1 whichever
\* account the call passes
create_poll_writes_one_registry(s, t, a) ==
  [s EXCEPT
     !.poll[a.pa] = write_realloc(@, new_poll(t, a), PollSize(new_poll(t, a))),
     !.vote_count[a.ca] =
        write_realloc(@, new_vote_count(t, a), VoteCountSize(new_vote_count(t, a))),
     !.voter_registry[1] =
        write_realloc(@, new_voter_registry(t, a),
                      VoterRegistrySize(new_voter_registry(t, a)))]

create_poll_writes(s, t, a) ==
  [s EXCEPT
     !.poll[a.pa] = write_realloc(@, new_poll(t, a), PollSize(new_poll(t, a))),
     !.vote_count[a.ca] =
        write_realloc(@, new_vote_count(t, a), VoteCountSize(new_vote_count(t, a))),
     !.voter_registry[a.ra] =
        write_realloc(@, new_voter_registry(t, a),
                      VoterRegistrySize(new_voter_registry(t, a)))]

process_create_poll(s, t, a) ==
  IF a.n_accounts < (IF a.is_weighted /\ IsSome(a.weight_token) THEN 5 ELSE 4)
  THEN Ret("NotEnoughAccountKeys", s)
  ELSE IF ~a.signer THEN Ret("MissingRequiredSignature", s)
  ELSE IF ~a.writable THEN Ret("InvalidAccountData", s)
  ELSE IF a.title = 0 \/ a.title > 100 THEN Ret("InvalidPollParameters", s)
  ELSE IF a.description > 1000 THEN Ret("InvalidPollParameters", s)
  ELSE IF ~OptionsValid(a.options) THEN Ret("InvalidPollParameters", s)
  ELSE IF a.start_time >= a.end_time THEN Ret("InvalidPollParameters", s)
  ELSE IF a.end_time <= t THEN Ret("InvalidPollParameters", s)
  ELSE IF a.is_weighted /\ ~IsSome(a.weight_token) THEN Ret("InvalidPollParameters", s)
  ELSE IF a.early_voter_bonus > 100 THEN Ret("InvalidPollParameters", s)
  ELSE Ret(process_fee_transaction(a.tx), create_poll_writes(s, t, a))

(***************************************************************************)
(* process_cancel_poll (lib.rs 652-711)                                    *)
(***************************************************************************)
\* process_cancel_poll that still cancels at start_time (> for >= at line 693)
process_cancel_poll_at_start(s, t, a) ==
  IF a.n_accounts < 2 THEN Ret("NotEnoughAccountKeys", s)
  ELSE IF ~a.signer THEN Ret("MissingRequiredSignature", s)
  ELSE IF ~a.writable THEN Ret("InvalidAccountData", s)
  ELSE LET acc == s.poll[a.pa]
           poll == acc.data
       IN IF ~Decodes(acc, PollSize(poll)) THEN Ret("InvalidAccountData", s)
          ELSE IF poll.id /= a.poll_id THEN Ret("PollDoesNotExist", s)
          ELSE IF poll.creator /= a.caller THEN Ret("NotPollCreator", s)
          ELSE IF t > poll.start_time THEN Ret("PollAlreadyStarted", s)
          ELSE Ret(process_fee_transaction(a.tx),
                   [s EXCEPT !.poll[a.pa] =
                        write_in_place(@, [poll EXCEPT !.is_active = FALSE])])

process_cancel_poll(s, t, a) ==
  IF a.n_accounts < 2 THEN Ret("NotEnoughAccountKeys", s)
  ELSE IF ~a.signer THEN Ret("MissingRequiredSignature", s)
  ELSE IF ~a.writable THEN Ret("InvalidAccountData", s)
  ELSE LET acc == s.poll[a.pa]
           poll == acc.data
       IN IF ~Decodes(acc, PollSize(poll)) THEN Ret("InvalidAccountData", s)
          ELSE IF poll.id /= a.poll_id THEN Ret("PollDoesNotExist", s)
          ELSE IF poll.creator /= a.caller THEN Ret("NotPollCreator", s)
          ELSE IF t >= poll.start_time THEN Ret("PollAlreadyStarted", s)
          ELSE Ret(process_fee_transaction(a.tx),
                   [s EXCEPT !.poll[a.pa] =
                        write_in_place(@, [poll EXCEPT !.is_active = FALSE])])

(***************************************************************************)
(* Vote counting helpers (lib.rs 1626-1712)                                *)
(***************************************************************************)
\* counts[i] with the code's 0-based index i; out-of-range indices are skipped
count_sub(counts, i, w) ==
  IF i < Len(counts) THEN [counts EXCEPT ![i + 1] = saturating_sub(@, w)] ELSE counts

count_add(counts, i, w) ==
  IF i < Len(counts) THEN [counts EXCEPT ![i + 1] = saturating_add(@, w)] ELSE counts

\* the new VoteCount record, given the decoded one
update_vote_count(vote_count, t, option_index, weight, is_revote, previous_option) ==
  LET c1 == IF is_revote
            THEN IF IsSome(previous_option)
                 THEN count_sub(vote_count.counts, Unwrap(previous_option), weight)
                 ELSE vote_count.counts
            ELSE vote_count.counts
      tv == IF is_revote THEN vote_count.total_voters
            ELSE saturating_add(vote_count.total_voters, 1)
  IN [vote_count EXCEPT !.counts = count_add(c1, option_index, weight),
                        !.total_voters = tv,
                        !.last_updated = t]
\* update_vote_count_change without the decrement of the old option
update_vote_count_change_no_decrement(vote_count, t, old_option_index, new_option_index, weight) ==
  [vote_count EXCEPT
     !.counts = count_add(vote_count.counts, new_option_index, weight),
     !.last_updated = t]

update_vote_count_change(vote_count, t, old_option_index, new_option_index, weight) ==
  [vote_count EXCEPT
     !.counts = count_add(count_sub(vote_count.counts, old_option_index, weight),
                          new_option_index, weight),
     !.last_updated = t]

\* reads the vote account as it is when called
get_previous_vote(acc, poll_id, voter) ==
  IF Decodes(acc, VoteSize(acc.data))
  THEN IF acc.data.voter = voter /\ acc.data.poll_id = poll_id
       THEN Some(acc.data.option_index)
       ELSE None
  ELSE None

unwrap_or(o, d) == IF IsSome(o) THEN Unwrap(o) ELSE d

(***************************************************************************)
(* process_cast_vote (lib.rs 713-957)                                      *)
(* a.extra: the accounts after the five required ones, each <<kind, slot>>  *)
(* with kind "delegation" or "token_balance"; position 6 is read as the    *)
(* delegation account and position 7 as the token balance account.  An     *)
(* account of the other kind does not decode.                              *)
(***************************************************************************)
CeilDiv(x, y) == (x + y - 1) \div y

\* f64 arithmetic (IEEE 754 binary64, round to nearest, ties to even) on the
\* non-negative values of lines 889-903.  A natural number is the sequence of
\* its binary digits, least significant first; an f64 is [m, e] with value
\* m * 2^e and m of at most 53 significant digits.
RECURSIVE Bits(_)
Bits(n) == IF n = 0 THEN <<>> ELSE <<n % 2>> \o Bits(n \div 2)

RECURSIVE Val(_)
Val(b) == IF b = <<>> THEN 0 ELSE b[1] + 2 * Val(Tail(b))

BitAt(b, i) == IF i >= 1 /\ i <= Len(b) THEN b[i] ELSE 0

\* b without its leading zero digits
Trim(b) ==
  LET ones == {i \in 1..Len(b) : b[i] = 1}
  IN IF ones = {} THEN <<>>
     ELSE SubSeq(b, 1, CHOOSE i \in ones : \A j \in ones : j <= i)

ShiftLeft(b, k) ==
  IF b = <<>> THEN <<>> ELSE [i \in 1..(Len(b) + k) |-> IF i <= k THEN 0 ELSE b[i - k]]

ShiftRight(b, k) == IF k >= Len(b) THEN <<>> ELSE SubSeq(b, k + 1, Len(b))

\* the digits lo..hi of a + b and the carry out of them, c the carry into lo:
\* the lower half of the positions is added first and its carry passed on
RECURSIVE AddDigits(_, _, _, _, _)
AddDigits(a, b, lo, hi, c) ==
  IF lo > hi THEN [s |-> <<>>, c |-> c]
  ELSE IF lo = hi
  THEN [s |-> <<(BitAt(a, lo) + BitAt(b, lo) + c) % 2>>,
        c |-> (BitAt(a, lo) + BitAt(b, lo) + c) \div 2]
  ELSE LET lower == AddDigits(a, b, lo, (lo + hi) \div 2, c)
       IN IF lower.c = 0 /\ Len(a) <= (lo + hi) \div 2
          THEN [s |-> lower.s \o [i \in 1..(hi - (lo + hi) \div 2) |->
                                    BitAt(b, (lo + hi) \div 2 + i)],
                c |-> 0]
          ELSE LET upper == AddDigits(a, b, (lo + hi) \div 2 + 1, hi, lower.c)
               IN [s |-> lower.s \o upper.s, c |-> upper.c]

AddBits(a, b) ==
  LET n == IF Len(a) >= Len(b) THEN Len(a) ELSE Len(b)
      sum == AddDigits(a, b, 1, n, 0)
  IN IF sum.c = 1 THEN Append(sum.s, 1) ELSE Trim(sum.s)

\* the digits lo..hi of a - b and the borrow out of them, c the borrow from lo
RECURSIVE SubDigits(_, _, _, _, _)
SubDigits(a, b, lo, hi, c) ==
  IF lo > hi THEN [s |-> <<>>, c |-> c]
  ELSE IF lo = hi
  THEN [s |-> <<(BitAt(a, lo) - BitAt(b, lo) - c) % 2>>,
        c |-> IF BitAt(a, lo) - BitAt(b, lo) - c < 0 THEN 1 ELSE 0]
  ELSE LET lower == SubDigits(a, b, lo, (lo + hi) \div 2, c)
       IN IF lower.c = 0 /\ Len(b) <= (lo + hi) \div 2
          THEN [s |-> lower.s \o [i \in 1..(hi - (lo + hi) \div 2) |->
                                    BitAt(a, (lo + hi) \div 2 + i)],
                c |-> 0]
          ELSE LET upper == SubDigits(a, b, (lo + hi) \div 2 + 1, hi, lower.c)
               IN [s |-> lower.s \o upper.s, c |-> upper.c]

\* a - b for a >= b
SubBits(a, b) == Trim(SubDigits(a, b, 1, Len(a), 0).s)

\* a times the digits lo..hi of b, each at its own position
RECURSIVE MulDigits(_, _, _, _)
MulDigits(a, b, lo, hi) ==
  IF lo > hi THEN <<>>
  ELSE IF lo = hi THEN (IF b[lo] = 1 THEN ShiftLeft(a, lo - 1) ELSE <<>>)
  ELSE AddBits(MulDigits(a, b, lo, (lo + hi) \div 2),
               MulDigits(a, b, (lo + hi) \div 2 + 1, hi))

MulBits(a, b) == MulDigits(a, b, 1, Len(b))

\* long division by the integer y of the digits hi down to lo of n, r the
\* remainder carried in from the digits above hi: the upper half of the
\* digits is divided first and its remainder carried into the lower half
RECURSIVE DivDigits(_, _, _, _, _)
DivDigits(n, y, hi, lo, r) ==
  IF hi < lo THEN [q |-> <<>>, r |-> r]
  ELSE IF hi = lo THEN [q |-> <<(2 * r + n[hi]) \div y>>, r |-> (2 * r + n[hi]) % y]
  ELSE LET mid == (hi + lo) \div 2
           upper == DivDigits(n, y, hi, mid + 1, r)
       IN IF upper.r = 0 /\ \A i \in lo..mid : n[i] = 0
          THEN [q |-> [i \in 1..(mid - lo + 1) |-> 0] \o upper.q, r |-> 0]
          ELSE LET lower == DivDigits(n, y, mid, lo, upper.r)
               IN [q |-> lower.q \o upper.q, r |-> lower.r]

\* [m, e] with the trailing zero digits of m moved into e
F64Norm(m, e) ==
  LET ones == {i \in 1..Len(m) : m[i] = 1}
      z == IF ones = {} THEN 0 ELSE (CHOOSE i \in ones : \A j \in ones : i <= j) - 1
  IN IF ones = {} THEN [m |-> <<>>, e |-> 0] ELSE [m |-> ShiftRight(m, z), e |-> e + z]

\* the f64 nearest to (n + f) * 2^e, where 0 <= f < 1 and sticky says f > 0;
\* a call with sticky carries more than 53 digits in n
F64Round(n0, e, sticky) ==
  LET n == Trim(n0)
      d == Len(n) - 53
  IN IF d <= 0 THEN F64Norm(n, e)
     ELSE LET kept == ShiftRight(n, d)
              rest == sticky \/ \E i \in 1..(d - 1) : n[i] = 1
              up == n[d] = 1 /\ (rest \/ kept[1] = 1)
          IN F64Norm(IF up THEN AddBits(kept, <<1>>) ELSE kept, e + d)

F64One == [m |-> <<1>>, e |-> 0]

\* n as f64, exact for n < 2^53
F64FromInt(n) == F64Round(Bits(n), 0, FALSE)

\* (x as f64) / (y as f64) for integers x >= 0 and y > 0
F64DivInt(x, y) ==
  LET k == 54 + Len(Bits(y))
      n == ShiftLeft(Bits(x), k)
      d == DivDigits(n, y, Len(n), 1, 0)
  IN F64Round(d.q, 0 - k, d.r /= 0)

F64Add(a, b) ==
  LET e == IF a.e <= b.e THEN a.e ELSE b.e
  IN F64Round(AddBits(ShiftLeft(a.m, a.e - e), ShiftLeft(b.m, b.e - e)), e, FALSE)

\* a - b for a >= b
F64Sub(a, b) ==
  LET e == IF a.e <= b.e THEN a.e ELSE b.e
  IN F64Round(SubBits(ShiftLeft(a.m, a.e - e), ShiftLeft(b.m, b.e - e)), e, FALSE)

F64Mul(a, b) == F64Round(MulBits(a.m, b.m), a.e + b.e, FALSE)

\* a.ceil() as u64, for a below 2^31
F64Ceil(a) ==
  IF a.e >= 0 THEN Val(ShiftLeft(a.m, a.e))
  ELSE Val(ShiftRight(a.m, 0 - a.e))
         + (IF \E i \in 1..(0 - a.e) : BitAt(a.m, i) = 1 THEN 1 ELSE 0)

\* lines 893-898: progress, bonus_multiplier and bonus_weight in f64
bonus_weight(amount, bonus, time_elapsed, poll_duration) ==
  LET progress == F64DivInt(time_elapsed, poll_duration)
      bonus_multiplier ==
        F64Add(F64One, F64Mul(F64DivInt(bonus, 100), F64Sub(F64One, progress)))
  IN F64Ceil(F64Mul(F64FromInt(amount), bonus_multiplier))
\* cast_delegation without the is_active check of lines 825-827
cast_delegation_inactive(s, t, a, poll) ==
  IF Len(a.extra) >= 1
  THEN IF ~poll.allow_delegation THEN [err |-> "InvalidDelegation", voter |-> a.caller]
       ELSE IF a.extra[1][1] /= "delegation"
               \/ ~Decodes(s.delegation[a.extra[1][2]],
                           DelegationSize(s.delegation[a.extra[1][2]].data))
       THEN [err |-> "InvalidAccountData", voter |-> a.caller]
       ELSE LET delegation == s.delegation[a.extra[1][2]].data
            IN IF delegation.delegator /= a.caller
               THEN [err |-> "InvalidDelegation", voter |-> a.caller]
               ELSE IF IsSome(delegation.poll_id) /\ Unwrap(delegation.poll_id) /= a.poll_id
               THEN [err |-> "InvalidDelegation", voter |-> a.caller]
               ELSE IF IsSome(delegation.expiration) /\ t > Unwrap(delegation.expiration)
               THEN [err |-> "DelegationExpired", voter |-> a.caller]
               ELSE [err |-> "OK", voter |-> delegation.delegate]
  ELSE [err |-> "OK", voter |-> a.caller]

\* lines 811-846: [err, effective_voter]
cast_delegation(s, t, a, poll) ==
  IF Len(a.extra) >= 1
  THEN IF ~poll.allow_delegation THEN [err |-> "InvalidDelegation", voter |-> a.caller]
       ELSE IF a.extra[1][1] /= "delegation"
               \/ ~Decodes(s.delegation[a.extra[1][2]],
                           DelegationSize(s.delegation[a.extra[1][2]].data))
       THEN [err |-> "InvalidAccountData", voter |-> a.caller]
       ELSE LET delegation == s.delegation[a.extra[1][2]].data
            IN IF delegation.delegator /= a.caller
               THEN [err |-> "InvalidDelegation", voter |-> a.caller]
               ELSE IF ~delegation.is_active
               THEN [err |-> "InvalidDelegation", voter |-> a.caller]
               ELSE IF IsSome(delegation.poll_id) /\ Unwrap(delegation.poll_id) /= a.poll_id
               THEN [err |-> "InvalidDelegation", voter |-> a.caller]
               ELSE IF IsSome(delegation.expiration) /\ t > Unwrap(delegation.expiration)
               THEN [err |-> "DelegationExpired", voter |-> a.caller]
               ELSE [err |-> "OK", voter |-> delegation.delegate]
  ELSE [err |-> "OK", voter |-> a.caller]
\* cast_privacy without the nonce check of lines 866-868
cast_privacy_no_nonce(a, poll) ==
  IF poll.is_private /\ (~IsSome(a.zk_proof) \/ Unwrap(a.zk_proof) = <<>>)
  THEN "InvalidZkProof"
  ELSE IF poll.is_encrypted /\ ~IsSome(a.encrypted_data) THEN "InvalidEncryption"
  ELSE "OK"

\* lines 848-870
cast_privacy(a, poll) ==
  IF poll.is_private /\ (~IsSome(a.zk_proof) \/ Unwrap(a.zk_proof) = <<>>)
  THEN "InvalidZkProof"
  ELSE IF poll.is_encrypted /\ ~IsSome(a.encrypted_data) THEN "InvalidEncryption"
  ELSE IF poll.is_encrypted /\ ~IsSome(a.nonce) THEN "MissingNonce"
  ELSE "OK"
\* cast_weight taking the asserted weight on a poll that is not weighted as well
cast_weight_asserted(s, t, a, poll) ==
  IF poll.is_weighted THEN [err |-> "OK", weight |-> unwrap_or(a.weight, 1)]
  ELSE [err |-> "OK", weight |-> unwrap_or(a.weight, 1)]

\* lines 872-911: [err, weight]
cast_weight(s, t, a, poll) ==
  IF poll.is_weighted
  THEN IF Len(a.extra) >= 2
       THEN IF a.extra[2][1] /= "token_balance"
               \/ ~Decodes(s.token_balance[a.extra[2][2]],
                           TokenBalanceSize(s.token_balance[a.extra[2][2]].data))
            THEN [err |-> "TokenBalanceNotFound", weight |-> 0]
            ELSE LET token_balance == s.token_balance[a.extra[2][2]].data
                     time_elapsed == saturating_sub(t, poll.start_time)
                     poll_duration == saturating_sub(poll.end_time, poll.start_time)
                 IN IF token_balance.owner /= a.caller
                    THEN [err |-> "InvalidAccountData", weight |-> 0]
                    ELSE IF IsSome(poll.weight_token)
                            /\ token_balance.token /= Unwrap(poll.weight_token)
                    THEN [err |-> "InvalidToken", weight |-> 0]
                    ELSE IF poll.early_voter_bonus > 0 /\ poll_duration > 0
                    THEN [err |-> "OK",
                          weight |-> bonus_weight(token_balance.amount,
                                                  poll.early_voter_bonus,
                                                  time_elapsed, poll_duration)]
                    ELSE [err |-> "OK", weight |-> token_balance.amount]
       ELSE [err |-> "OK", weight |-> unwrap_or(a.weight, 1)]
  ELSE [err |-> "OK", weight |-> 1]

new_vote(t, a, effective_voter, vote_weight) ==
  [poll_id |-> a.poll_id, voter |-> a.caller, option_index |-> a.option_index,
   timestamp |-> t, weight |-> vote_weight,
   delegated_to |-> IF Len(a.extra) >= 1 THEN Some(effective_voter) ELSE None,
   encrypted_data |-> a.encrypted_data, zk_proof |-> a.zk_proof, nonce |-> a.nonce]

\* lines 926-956: the vote, the vote count and the registry are written in turn
cast_vote_writes(s, t, a, voter_registry, voter_index, vote) ==
  LET s1 == [s EXCEPT !.vote[a.va] = write_realloc(@, vote, VoteSize(vote))]
      previous_option ==
        IF IsSome(voter_index)
        THEN Some(unwrap_or(get_previous_vote(s1.vote[a.va], a.poll_id, a.caller), 0))
        ELSE None
      cacc == s1.vote_count[a.ca]
      s2 == [s1 EXCEPT !.vote_count[a.ca] =
               write_in_place(@, update_vote_count(cacc.data, t, a.option_index,
                                                   vote.weight, IsSome(voter_index),
                                                   previous_option))]
      s3 == [s2 EXCEPT !.voter_registry[a.ra] = write_in_place(@, voter_registry)]
  IN IF ~Decodes(cacc, VoteCountSize(cacc.data)) THEN Ret("InvalidAccountData", s1)
     ELSE IF ~Fits(s2.voter_registry[a.ra], VoterRegistrySize(voter_registry))
     THEN Ret("Panic", s)
     ELSE Ret(process_fee_transaction(a.tx), s3)

\* lines 790-924, once the poll has passed its checks
cast_vote_body(s, t, a, poll) ==
  LET racc == s.voter_registry[a.ra]
      voter_index == find_voter_index(racc.data, a.caller)
      voter_registry == IF IsSome(voter_index) THEN racc.data
                        ELSE add_voter_to_registry(racc.data, a.caller)
      d == cast_delegation(s, t, a, poll)
      w == cast_weight(s, t, a, poll)
  IN IF ~Decodes(racc, VoterRegistrySize(racc.data)) THEN Ret("InvalidAccountData", s)
     ELSE IF IsSome(voter_index) /\ ~poll.allow_revote THEN Ret("AlreadyVoted", s)
     ELSE IF d.err /= "OK" THEN Ret(d.err, s)
     ELSE IF cast_privacy(a, poll) /= "OK" THEN Ret(cast_privacy(a, poll), s)
     ELSE IF w.err /= "OK" THEN Ret(w.err, s)
     ELSE cast_vote_writes(s, t, a, voter_registry, voter_index,
                           new_vote(t, a, d.voter, w.weight))
\* process_cast_vote with the end of the window excluded (>= for > at line 781)
process_cast_vote_early_end(s, t, a) ==
  IF a.n_accounts < 5 THEN Ret("NotEnoughAccountKeys", s)
  ELSE IF ~a.signer THEN Ret("MissingRequiredSignature", s)
  ELSE IF ~a.writable THEN Ret("InvalidAccountData", s)
  ELSE LET acc == s.poll[a.pa]
           poll == acc.data
       IN IF ~Decodes(acc, PollSize(poll)) THEN Ret("InvalidAccountData", s)
          ELSE IF poll.id /= a.poll_id THEN Ret("PollDoesNotExist", s)
          ELSE IF ~poll.is_active THEN Ret("PollNotActive", s)
          ELSE IF t < poll.start_time THEN Ret("PollNotStarted", s)
          ELSE IF t >= poll.end_time THEN Ret("PollEnded", s)
          ELSE IF a.option_index >= Len(poll.options) THEN Ret("InvalidOptionIndex", s)
          ELSE cast_vote_body(s, t, a, poll)
\* process_cast_vote that looks at the signer flag after its checks on the poll
process_cast_vote_signer_late(s, t, a) ==
  IF a.n_accounts < 5 THEN Ret("NotEnoughAccountKeys", s)
  ELSE IF ~a.writable THEN Ret("InvalidAccountData", s)
  ELSE LET acc == s.poll[a.pa]
           poll == acc.data
       IN IF ~Decodes(acc, PollSize(poll)) THEN Ret("InvalidAccountData", s)
          ELSE IF poll.id /= a.poll_id THEN Ret("PollDoesNotExist", s)
          ELSE IF ~poll.is_active THEN Ret("PollNotActive", s)
          ELSE IF t < poll.start_time THEN Ret("PollNotStarted", s)
          ELSE IF t > poll.end_time THEN Ret("PollEnded", s)
          ELSE IF a.option_index >= Len(poll.options) THEN Ret("InvalidOptionIndex", s)
          ELSE IF ~a.signer THEN Ret("MissingRequiredSignature", s)
          ELSE cast_vote_body(s, t, a, poll)

process_cast_vote(s, t, a) ==
  IF a.n_accounts < 5 THEN Ret("NotEnoughAccountKeys", s)
  ELSE IF ~a.signer THEN Ret("MissingRequiredSignature", s)
  ELSE IF ~a.writable THEN Ret("InvalidAccountData", s)
  ELSE LET acc == s.poll[a.pa]
           poll == acc.data
       IN IF ~Decodes(acc, PollSize(poll)) THEN Ret("InvalidAccountData", s)
          ELSE IF poll.id /= a.poll_id THEN Ret("PollDoesNotExist", s)
          ELSE IF ~poll.is_active THEN Ret("PollNotActive", s)
          ELSE IF t < poll.start_time THEN Ret("PollNotStarted", s)
          ELSE IF t > poll.end_time THEN Ret("PollEnded", s)
          ELSE IF a.option_index >= Len(poll.options) THEN Ret("InvalidOptionIndex", s)
          ELSE cast_vote_body(s, t, a, poll)

(***************************************************************************)
(* process_change_vote (lib.rs 959-1090)                                   *)
(***************************************************************************)
change_vote_body(s, t, a, poll) ==
  LET vacc == s.vote[a.va]
      old == vacc.data
      vote == [old EXCEPT !.option_index = a.option_index, !.timestamp = t,
                          !.encrypted_data = a.encrypted_data,
                          !.zk_proof = a.zk_proof, !.nonce = a.nonce]
      s1 == [s EXCEPT !.vote[a.va] = write_in_place(@, vote)]
      cacc == s1.vote_count[a.ca]
      s2 == [s1 EXCEPT !.vote_count[a.ca] =
               write_in_place(@, update_vote_count_change(cacc.data, t,
                                   old.option_index, a.option_index, vote.weight))]
  IN IF ~Decodes(vacc, VoteSize(old)) THEN Ret("InvalidAccountData", s)
     ELSE IF old.voter /= a.caller THEN Ret("InvalidAccountData", s)
     ELSE IF old.poll_id /= a.poll_id THEN Ret("InvalidAccountData", s)
     ELSE IF cast_privacy(a, poll) /= "OK" THEN Ret(cast_privacy(a, poll), s)
     ELSE IF ~Fits(vacc, VoteSize(vote)) THEN Ret("Panic", s)
     ELSE IF ~Decodes(cacc, VoteCountSize(cacc.data)) THEN Ret("InvalidAccountData", s1)
     ELSE Ret(process_fee_transaction(a.tx), s2)

process_change_vote(s, t, a) ==
  IF a.n_accounts < 4 THEN Ret("NotEnoughAccountKeys", s)
  ELSE IF ~a.signer THEN Ret("MissingRequiredSignature", s)
  ELSE IF ~a.writable THEN Ret("InvalidAccountData", s)
  ELSE LET acc == s.poll[a.pa]
           poll == acc.data
       IN IF ~Decodes(acc, PollSize(poll)) THEN Ret("InvalidAccountData", s)
          ELSE IF poll.id /= a.poll_id THEN Ret("PollDoesNotExist", s)
          ELSE IF ~poll.is_active THEN Ret("PollNotActive", s)
          ELSE IF ~poll.allow_revote THEN Ret("RevotingNotAllowed", s)
          ELSE IF t < poll.start_time THEN Ret("PollNotStarted", s)
          ELSE IF t > poll.end_time THEN Ret("PollEnded", s)
          ELSE IF a.option_index >= Len(poll.options) THEN Ret("InvalidOptionIndex", s)
          ELSE change_vote_body(s, t, a, poll)

(***************************************************************************)
(* process_close_poll (lib.rs 1092-1168)                                   *)
(***************************************************************************)
\* close_poll_writes that finalizes the tally of an encrypted poll as well
close_poll_writes_always_finalize(s, t, a, poll) ==
  LET cacc == s.vote_count[a.ca]
      s1 == [s EXCEPT !.vote_count[a.ca] =
               write_in_place(@, [cacc.data EXCEPT !.is_finalized = TRUE,
                                                   !.last_updated = t])]
      s2 == [s1 EXCEPT !.poll[a.pa] =
               write_in_place(@, [poll EXCEPT !.is_active = FALSE])]
  IN IF ~Decodes(cacc, VoteCountSize(cacc.data))
     THEN Ret("InvalidAccountData", s)
     ELSE Ret(process_fee_transaction(a.tx), s2)

close_poll_writes(s, t, a, poll) ==
  LET cacc == s.vote_count[a.ca]
      s1 == IF poll.is_encrypted THEN s
            ELSE [s EXCEPT !.vote_count[a.ca] =
                    write_in_place(@, [cacc.data EXCEPT !.is_finalized = TRUE,
                                                        !.last_updated = t])]
      s2 == [s1 EXCEPT !.poll[a.pa] =
               write_in_place(@, [poll EXCEPT !.is_active = FALSE])]
  IN IF ~poll.is_encrypted /\ ~Decodes(cacc, VoteCountSize(cacc.data))
     THEN Ret("InvalidAccountData", s)
     ELSE Ret(process_fee_transaction(a.tx), s2)
\* process_close_poll that lets anyone close at end_time (< for <= at line 1137)
process_close_poll_at_end(s, t, a) ==
  IF a.n_accounts < 3 THEN Ret("NotEnoughAccountKeys", s)
  ELSE IF ~a.signer THEN Ret("MissingRequiredSignature", s)
  ELSE IF ~a.writable THEN Ret("InvalidAccountData", s)
  ELSE LET acc == s.poll[a.pa]
           poll == acc.data
       IN IF ~Decodes(acc, PollSize(poll)) THEN Ret("InvalidAccountData", s)
          ELSE IF poll.id /= a.poll_id THEN Ret("PollDoesNotExist", s)
          ELSE IF ~poll.is_active THEN Ret("PollNotActive", s)
          ELSE IF t < poll.end_time /\ poll.creator /= a.caller
          THEN Ret("NotPollCreator", s)
          ELSE close_poll_writes(s, t, a, poll)

process_close_poll(s, t, a) ==
  IF a.n_accounts < 3 THEN Ret("NotEnoughAccountKeys", s)
  ELSE IF ~a.signer THEN Ret("MissingRequiredSignature", s)
  ELSE IF ~a.writable THEN Ret("InvalidAccountData", s)
  ELSE LET acc == s.poll[a.pa]
           poll == acc.data
       IN IF ~Decodes(acc, PollSize(poll)) THEN Ret("InvalidAccountData", s)
          ELSE IF poll.id /= a.poll_id THEN Ret("PollDoesNotExist", s)
          ELSE IF ~poll.is_active THEN Ret("PollNotActive", s)
          ELSE IF t <= poll.end_time /\ poll.creator /= a.caller
          THEN Ret("NotPollCreator", s)
          ELSE close_poll_writes(s, t, a, poll)

(***************************************************************************)
(* process_get_results (lib.rs 1170-1233): reads only                      *)
(***************************************************************************)
process_get_results(s, t, a) ==
  IF a.n_accounts < 2 THEN Ret("NotEnoughAccountKeys", s)
  ELSE LET acc == s.poll[a.pa]
           cacc == s.vote_count[a.ca]
       IN IF ~Decodes(acc, PollSize(acc.data)) THEN Ret("InvalidAccountData", s)
          ELSE IF acc.data.id /= a.poll_id THEN Ret("PollDoesNotExist", s)
          ELSE IF ~Decodes(cacc, VoteCountSize(cacc.data)) THEN Ret("InvalidAccountData", s)
          ELSE IF cacc.data.poll_id /= a.poll_id THEN Ret("InvalidAccountData", s)
          ELSE Ret("OK", s)

\* get_results_report without the check of lines 1207-1210
get_results_report_always(s, a) ==
  LET poll == s.poll[a.pa].data
      vote_count == s.vote_count[a.ca].data
  IN Some([i \in 1..Len(poll.options) |->
             IF i <= Len(vote_count.counts) THEN vote_count.counts[i] ELSE 0])

\* lines 1204-1228: the per-option counts that a successful GetResults logs,
\* None when it logs that the results are not yet available
get_results_report(s, a) ==
  LET poll == s.poll[a.pa].data
      vote_count == s.vote_count[a.ca].data
  IN IF poll.is_encrypted /\ ~vote_count.is_finalized THEN None
     ELSE Some([i \in 1..Len(poll.options) |->
                  IF i <= Len(vote_count.counts) THEN vote_count.counts[i] ELSE 0])

(***************************************************************************)
(* process_decrypt_results (lib.rs 1235-1340)                              *)
(* a.votes_writable: every vote account after the three required accounts  *)
(* is writable                                                             *)
(***************************************************************************)
\* decrypt_results_body without the is_finalized check of lines 1309-1311
decrypt_results_body_unchecked(s, t, a, poll0) ==
  LET poll1 == IF poll0.is_active THEN [poll0 EXCEPT !.is_active = FALSE] ELSE poll0
      cacc == s.vote_count[a.ca]
      poll2 == [poll1 EXCEPT !.decryption_key = Some(a.decryption_key)]
      s1 == [s EXCEPT !.poll[a.pa] = write_in_place(@, poll2)]
      s2 == [s1 EXCEPT !.vote_count[a.ca] =
               write_in_place(@, [cacc.data EXCEPT !.is_finalized = TRUE,
                                                   !.last_updated = t])]
  IN IF poll0.is_active /\ t <= poll0.end_time THEN Ret("PollStillActive", s)
     ELSE IF ~Decodes(cacc, VoteCountSize(cacc.data)) THEN Ret("InvalidAccountData", s)
     ELSE IF cacc.data.poll_id /= a.poll_id THEN Ret("InvalidAccountData", s)
     ELSE IF ~Fits(s.poll[a.pa], PollSize(poll2)) THEN Ret("Panic", s)
     ELSE Ret(process_fee_transaction(a.tx), s2)

decrypt_results_body(s, t, a, poll0) ==
  LET poll1 == IF poll0.is_active THEN [poll0 EXCEPT !.is_active = FALSE] ELSE poll0
      cacc == s.vote_count[a.ca]
      poll2 == [poll1 EXCEPT !.decryption_key = Some(a.decryption_key)]
      s1 == [s EXCEPT !.poll[a.pa] = write_in_place(@, poll2)]
      s2 == [s1 EXCEPT !.vote_count[a.ca] =
               write_in_place(@, [cacc.data EXCEPT !.is_finalized = TRUE,
                                                   !.last_updated = t])]
  IN IF poll0.is_active /\ t <= poll0.end_time THEN Ret("PollStillActive", s)
     ELSE IF ~Decodes(cacc, VoteCountSize(cacc.data)) THEN Ret("InvalidAccountData", s)
     ELSE IF cacc.data.poll_id /= a.poll_id THEN Ret("InvalidAccountData", s)
     ELSE IF cacc.data.is_finalized THEN Ret("ResultsAlreadyFinalized", s)
     ELSE IF ~Fits(s.poll[a.pa], PollSize(poll2)) THEN Ret("Panic", s)
     ELSE Ret(process_fee_transaction(a.tx), s2)

process_decrypt_results(s, t, a) ==
  IF a.n_accounts < 3 THEN Ret("NotEnoughAccountKeys", s)
  ELSE IF ~a.signer THEN Ret("MissingRequiredSignature", s)
  ELSE IF ~a.writable THEN Ret("InvalidAccountData", s)
  ELSE IF ~a.votes_writable THEN Ret("InvalidAccountData", s)
  ELSE LET acc == s.poll[a.pa]
           poll == acc.data
       IN IF ~Decodes(acc, PollSize(poll)) THEN Ret("InvalidAccountData", s)
          ELSE IF poll.id /= a.poll_id THEN Ret("PollDoesNotExist", s)
          ELSE IF ~poll.is_encrypted THEN Ret("PollNotEncrypted", s)
          ELSE IF poll.creator /= a.caller THEN Ret("NotPollCreator", s)
          ELSE decrypt_results_body(s, t, a, poll)

(***************************************************************************)
(* process_delegate_vote (lib.rs 1342-1410)                                *)
(***************************************************************************)
new_delegation(t, a) ==
  [id |-> t + a.caller[1], delegator |-> a.caller, delegate |-> a.delegate,
   poll_id |-> a.poll_id, expiration |-> a.expiration, is_active |-> TRUE]

process_delegate_vote(s, t, a) ==
  IF a.n_accounts < 3 THEN Ret("NotEnoughAccountKeys", s)
  ELSE IF ~a.signer THEN Ret("MissingRequiredSignature", s)
  ELSE IF ~a.writable THEN Ret("InvalidAccountData", s)
  ELSE IF IsSome(a.expiration) /\ Unwrap(a.expiration) <= t
  THEN Ret("InvalidPollParameters", s)
  ELSE Ret(process_fee_transaction(a.tx),
           [s EXCEPT !.delegation[a.da] =
              write_realloc(@, new_delegation(t, a),
                            DelegationSize(new_delegation(t, a)))])

(***************************************************************************)
(* process_revoke_delegation (lib.rs 1412-1465)                            *)
(***************************************************************************)
process_revoke_delegation(s, t, a) ==
  IF a.n_accounts < 2 THEN Ret("NotEnoughAccountKeys", s)
  ELSE IF ~a.signer THEN Ret("MissingRequiredSignature", s)
  ELSE IF ~a.writable THEN Ret("InvalidAccountData", s)
  ELSE LET acc == s.delegation[a.da]
           delegation == acc.data
       IN IF ~Decodes(acc, DelegationSize(delegation)) THEN Ret("DelegationNotFound", s)
          ELSE IF delegation.id /= a.delegation_id THEN Ret("DelegationNotFound", s)
          ELSE IF delegation.delegator /= a.caller THEN Ret("NotDelegator", s)
          ELSE Ret(process_fee_transaction(a.tx),
                   [s EXCEPT !.delegation[a.da] =
                      write_in_place(@, [delegation EXCEPT !.is_active = FALSE])])

(***************************************************************************)
(* process_update_token_balance (lib.rs 1467-1525)                         *)
(***************************************************************************)
new_token_balance(t, a) ==
  [owner |-> a.caller, token |-> a.token, amount |-> a.amount, last_updated |-> t]
process_update_token_balance(s, t, a) ==
  IF a.n_accounts < 3 THEN Ret("NotEnoughAccountKeys", s)
  ELSE IF ~a.signer THEN Ret("MissingRequiredSignature", s)
  ELSE IF ~a.writable THEN Ret("InvalidAccountData", s)
  ELSE Ret(process_fee_transaction(a.tx),
           [s EXCEPT !.token_balance[a.ba] =
              write_realloc(@, new_token_balance(t, a),
                            TokenBalanceSize(new_token_balance(t, a)))])

(***************************************************************************)
(* Inputs of the calls                                                     *)
(***************************************************************************)
Callers == {KeyA, KeyB}
OptionIndexes == 0..2

\* the poll id a caller names: the id stored in the poll account, or another
NamedIds(stored) == {stored, stored + 1}

\* a call of the right shape that carries a well-formed fee transaction
GoodShape(n) == [n_accounts |-> n, signer |-> TRUE, writable |-> TRUE, tx |-> "ok"]

\* the privacy payload of a ballot: absent, or ciphertext with its nonce
NoPayload == [encrypted_data |-> None, zk_proof |-> None, nonce |-> None]
Payloads ==
  {NoPayload, [encrypted_data |-> Some(<<1>>), zk_proof |-> None, nonce |-> Some(<<2>>)]}

Merge(f, g) == [k \in (DOMAIN f) \cup (DOMAIN g) |-> IF k \in DOMAIN f THEN f[k] ELSE g[k]]

\* every voter passes the vote account of their own
OwnVoteAccount(c) == IF c = KeyA THEN 1 ELSE 2

\* CreatePoll by KeyA of a two-option poll open over [1, 2]
CreatePollArgsOf(CAs, RAs, ENs) ==
  {Merge(GoodShape(4),
         [caller |-> KeyA, pa |-> i, ca |-> j, ra |-> r, title |-> 1, description |-> 0,
          options |-> <<1, 1>>, start_time |-> 1, end_time |-> 2,
          is_private |-> FALSE, allow_revote |-> rv, is_weighted |-> FALSE,
          allow_delegation |-> FALSE, is_encrypted |-> en, weight_token |-> None,
          early_voter_bonus |-> 0]) :
     i \in PollAccounts, j \in CAs, r \in RAs, rv \in BOOLEAN, en \in ENs}

StoredPollIds == UNION {NamedIds(poll_account[k].data.id) : k \in PollAccounts}

PollCallArgsOf(n, CAs) ==
  {Merge(GoodShape(n), [caller |-> c, pa |-> i, ca |-> j, poll_id |-> id]) :
     c \in Callers, i \in PollAccounts, j \in CAs, id \in StoredPollIds}

CastVoteArgsOf(CAs, RAs, Pls) ==
  {Merge(Merge(GoodShape(5), pl),
         [caller |-> c, va |-> OwnVoteAccount(c), pa |-> i, ca |-> j, ra |-> r,
          extra |-> <<>>, poll_id |-> id, option_index |-> o, weight |-> None]) :
     c \in Callers, i \in PollAccounts, j \in CAs, r \in RAs, o \in OptionIndexes,
     pl \in Pls, id \in StoredPollIds}

ChangeVoteArgsOf(CAs, Pls) ==
  {Merge(Merge(GoodShape(4), pl),
         [caller |-> c, va |-> OwnVoteAccount(c), pa |-> i, ca |-> j,
          poll_id |-> id, option_index |-> o]) :
     c \in Callers, i \in PollAccounts, j \in CAs, o \in OptionIndexes, pl \in Pls,
     id \in StoredPollIds}

DecryptArgsOf(CAs) ==
  {Merge(a, [votes_writable |-> TRUE, decryption_key |-> <<9>>]) :
     a \in PollCallArgsOf(3, CAs)}

\* the other of the two callers
OtherCaller(c) == IF c = KeyA THEN KeyB ELSE KeyA

DelegateVoteArgs ==
  {Merge(GoodShape(3),
         [caller |-> c, da |-> d, delegate |-> OtherCaller(c), poll_id |-> None,
          expiration |-> e]) :
     c \in Callers, d \in DelegationAccounts, e \in {None, Some(2)}}

RevokeDelegationArgs ==
  {Merge(GoodShape(2), [caller |-> c, da |-> d, delegation_id |-> id]) :
     c \in Callers, d \in DelegationAccounts,
     id \in UNION {NamedIds(delegation_account[k].data.id) : k \in DelegationAccounts}}

\* the inputs of Spec: polls in the clear, one vote count account, any registry
CreatePollArgs == CreatePollArgsOf({1}, RegistryAccounts, {FALSE})
CancelPollArgs == PollCallArgsOf(2, {1})
CastVoteArgs == CastVoteArgsOf({1}, RegistryAccounts, {NoPayload})
ChangeVoteArgs == ChangeVoteArgsOf({1}, {NoPayload})
ClosePollArgs == PollCallArgsOf(3, {1})

\* the inputs of SpecClose: polls in the clear and encrypted, any vote count account
LifecycleCreateArgs == CreatePollArgsOf(VoteCountAccounts, {1}, BOOLEAN)
LifecycleCloseArgs == PollCallArgsOf(3, VoteCountAccounts)
LifecycleDecryptArgs == DecryptArgsOf(VoteCountAccounts)

(***************************************************************************)
(* Actions: one per instruction, plus the clock                            *)
(***************************************************************************)
Apply(op, r) ==
  /\ ops < MaxOps
  /\ ops' = ops + 1
  /\ poll_account' = r.st.poll
  /\ vote_count_account' = r.st.vote_count
  /\ voter_registry_account' = r.st.voter_registry
  /\ vote_account' = r.st.vote
  /\ delegation_account' = r.st.delegation
  /\ token_balance_account' = r.st.token_balance
  /\ res' = [op |-> op, err |-> r.err]
  /\ UNCHANGED now

CreatePoll(a) == Apply("CreatePoll", process_create_poll(St, now, a))
CancelPoll(a) == Apply("CancelPoll", process_cancel_poll(St, now, a))
CastVote(a) == Apply("CastVote", process_cast_vote(St, now, a))
ChangeVote(a) == Apply("ChangeVote", process_change_vote(St, now, a))
ClosePoll(a) == Apply("ClosePoll", process_close_poll(St, now, a))
GetResults(a) == Apply("GetResults", process_get_results(St, now, a))
DecryptResults(a) == Apply("DecryptResults", process_decrypt_results(St, now, a))
DelegateVote(a) == Apply("DelegateVote", process_delegate_vote(St, now, a))
RevokeDelegation(a) == Apply("RevokeDelegation", process_revoke_delegation(St, now, a))
UpdateTokenBalance(a) ==
  Apply("UpdateTokenBalance", process_update_token_balance(St, now, a))

\* get_bitcoin_block_height: the block height never decreases
Tick ==
  /\ now < MaxTime
  /\ now' = now + 1
  /\ UNCHANGED <<poll_account, vote_count_account, voter_registry_account,
                 vote_account, delegation_account, token_balance_account, res, ops>>

Init ==
  /\ now = 0
  /\ ops = 0
  /\ poll_account = [i \in PollAccounts |-> [len |-> BufLen, data |-> ZeroPoll]]
  /\ vote_count_account =
       [i \in VoteCountAccounts |-> [len |-> BufLen, data |-> ZeroVoteCount]]
  /\ voter_registry_account =
       [i \in RegistryAccounts |-> [len |-> BufLen, data |-> ZeroVoterRegistry]]
  /\ vote_account = [i \in VoteAccounts |-> [len |-> BufLen, data |-> ZeroVote]]
  /\ delegation_account =
       [i \in DelegationAccounts |-> [len |-> BufLen, data |-> ZeroDelegation]]
  /\ token_balance_account =
       [i \in BalanceAccounts |-> [len |-> BufLen, data |-> ZeroTokenBalance]]
  /\ res = [op |-> "none", err |-> "OK"]

Next ==
  \/ Tick
  \/ \E a \in CreatePollArgs : CreatePoll(a)
  \/ \E a \in CancelPollArgs : CancelPoll(a)
  \/ \E a \in CastVoteArgs : CastVote(a)
  \/ \E a \in ChangeVoteArgs : ChangeVote(a)
  \/ \E a \in ClosePollArgs : ClosePoll(a)

\* casting and changing votes on polls in the clear
Spec == Init /\ [][Next]_vars

NextClose ==
  \/ Tick
  \/ \E a \in LifecycleCreateArgs : CreatePoll(a)
  \/ \E a \in CancelPollArgs : CancelPoll(a)
  \/ \E a \in LifecycleCloseArgs : ClosePoll(a)
  \/ \E a \in LifecycleDecryptArgs : DecryptResults(a)

\* the life of a poll and of its tally: create, cancel, close, decrypt
SpecClose == Init /\ [][NextClose]_vars

NextDelegation ==
  \/ Tick
  \/ \E a \in DelegateVoteArgs : DelegateVote(a)
  \/ \E a \in RevokeDelegationArgs : RevokeDelegation(a)

\* the life of a delegation: delegate, revoke
SpecDelegation == Init /\ [][NextDelegation]_vars

(***************************************************************************)
(* Properties of the tally and of the voter registry                       *)
(***************************************************************************)
\* the voters listed in the registries that carry the poll id pid
VotersOf(s, pid) ==
  UNION {SeqToSet(s.voter_registry[r].data.voters) :
           r \in {x \in RegistryAccounts : s.voter_registry[x].data.poll_id = pid}}

\* the weight of the current Vote record in account va if it is a ballot of a
\* voter registered for pid, else 0
BallotWeight(s, pid, va) ==
  LET vote == s.vote[va].data
  IN IF vote.poll_id = pid /\ vote.voter \in VotersOf(s, pid) THEN vote.weight ELSE 0

\* the tally in account ca adds up to the weights of the registered voters' ballots
Balanced(s, ca) ==
  LET vote_count == s.vote_count[ca].data
  IN SumSeq(vote_count.counts)
       = SumSeq([va \in VoteAccounts |-> BallotWeight(s, vote_count.poll_id, va)])

\* the call names the tally and the registry that were created for its poll
OwnRecords(s, a) ==
  /\ s.poll[a.pa].data.id = a.poll_id
  /\ s.vote_count[a.ca].data.poll_id = a.poll_id
  /\ s.voter_registry[a.ra].data.poll_id = a.poll_id

\* the call passes every check that CastVote makes on the poll itself
PollAccepts(s, t, a) ==
  LET poll == s.poll[a.pa].data
  IN /\ poll.id = a.poll_id
     /\ poll.is_active
     /\ poll.start_time <= t /\ t <= poll.end_time
     /\ a.option_index < Len(poll.options)

NoDuplicates(list) == Cardinality(SeqToSet(list)) = Len(list)

\* C1: every successful CastVote or ChangeVote that names the poll's own tally
\* and registry, made in a state where the sum of counts equals the sum of the
\* weights of the registered voters' current Vote records, leaves the two sums
\* equal.
C1_TallySumEqualsBallotWeights ==
  /\ \A a \in CastVoteArgs :
       LET r == process_cast_vote(St, now, a)
       IN (r.err = "OK" /\ OwnRecords(St, a) /\ Balanced(St, a.ca))
            => Balanced(r.st, a.ca)
  /\ \A a \in ChangeVoteArgs :
       LET r == process_change_vote(St, now, a)
       IN (r.err = "OK" /\ St.vote_count[a.ca].data.poll_id = a.poll_id
             /\ Balanced(St, a.ca))
            => Balanced(r.st, a.ca)

\* C2: a successful CastVote by a voter already listed in the poll's registry
\* takes the weight of the voter's previous Vote from counts[old option], adds
\* the new weight to counts[new option] and keeps total_voters.
C2_RevoteMovesWeight ==
  \A a \in CastVoteArgs :
    LET r == process_cast_vote(St, now, a)
        old == St.vote[a.va].data
        before == St.vote_count[a.ca].data
        after == r.st.vote_count[a.ca].data
    IN (/\ r.err = "OK"
        /\ OwnRecords(St, a)
        /\ a.caller \in SeqToSet(St.voter_registry[a.ra].data.voters)
        /\ old.voter = a.caller /\ old.poll_id = a.poll_id)
         => /\ after.counts
                 = count_add(count_sub(before.counts, old.option_index, old.weight),
                             a.option_index, r.st.vote[a.va].data.weight)
            /\ after.total_voters = before.total_voters

\* C3: a successful CastVote adds 1 to total_voters of the poll's tally when the
\* caller is not yet listed in the poll's registry and 0 when the caller is
\* listed; a successful ChangeVote adds 0.
C3_TotalVotersStep ==
  /\ \A a \in CastVoteArgs :
       LET r == process_cast_vote(St, now, a)
       IN (r.err = "OK" /\ St.vote_count[a.ca].data.poll_id = a.poll_id)
            => r.st.vote_count[a.ca].data.total_voters
                 = St.vote_count[a.ca].data.total_voters
                     + (IF a.caller \in VotersOf(St, a.poll_id) THEN 0 ELSE 1)
  /\ \A a \in ChangeVoteArgs :
       LET r == process_change_vote(St, now, a)
       IN r.err = "OK"
            => r.st.vote_count[a.ca].data.total_voters
                 = St.vote_count[a.ca].data.total_voters

\* C4: in every state total_voters of a tally equals the number of distinct
\* voters listed in the registry that carries the same poll id.
C4_TotalVotersCountsRegistry ==
  \A ca \in VoteCountAccounts, ra \in RegistryAccounts :
    LET vote_count == vote_count_account[ca].data
        voter_registry == voter_registry_account[ra].data
    IN (vote_count.poll_id /= 0 /\ voter_registry.poll_id = vote_count.poll_id)
         => vote_count.total_voters = Cardinality(SeqToSet(voter_registry.voters))

\* C5: in every state no registry lists a voter key more than once.
C5_RegistryHasNoDuplicates ==
  \A ra \in RegistryAccounts : NoDuplicates(voter_registry_account[ra].data.voters)

\* C5 witness: both voters, whose keys share a bitmap bit, are listed in
\* registry 1 and the fourth call was a successful CastVote by one of them
\* through that registry.
C5_Witness ==
  /\ res = [op |-> "CastVote", err |-> "OK"]
  /\ ops = 4
  /\ SeqToSet(voter_registry_account[1].data.voters) = {KeyA, KeyB}
  /\ voter_registry_account[2].data.voters = <<>>
  /\ hash_pubkey(KeyA) % 8192 = hash_pubkey(KeyB) % 8192

\* C6: on a poll without revoting, a CastVote that passes the checks on the poll
\* and whose caller is listed in the poll's registry fails with AlreadyVoted and
\* changes no record.
C6_SecondVoteRejected ==
  \A a \in CastVoteArgs :
    LET r == process_cast_vote(St, now, a)
    IN (/\ PollAccepts(St, now, a)
        /\ ~St.poll[a.pa].data.allow_revote
        /\ a.caller \in VotersOf(St, a.poll_id))
         => r.err = "AlreadyVoted" /\ r.st = St

(***************************************************************************)
(* Properties of the life of a poll, of its tally and of a delegation      *)
(***************************************************************************)
\* C7: once the tally in a vote count account is finalized, no step changes its
\* counts or its total_voters or clears is_finalized.
C7_FinalizedTallyIsFrozen ==
  [][\A ca \in VoteCountAccounts :
       vote_count_account[ca].data.is_finalized
         => /\ vote_count_account'[ca].data.counts = vote_count_account[ca].data.counts
            /\ vote_count_account'[ca].data.total_voters
                 = vote_count_account[ca].data.total_voters
            /\ vote_count_account'[ca].data.is_finalized]_vars

\* C8: ClosePoll and DecryptResults that name a poll and the poll's tally, the
\* tally being finalized, fail and change no record.
C8_FinalizedTallyRejectsCloseAndDecrypt ==
  /\ \A a \in LifecycleCloseArgs :
       LET r == process_close_poll(St, now, a)
       IN (/\ St.poll[a.pa].data.id = a.poll_id
           /\ St.vote_count[a.ca].data.poll_id = a.poll_id
           /\ St.vote_count[a.ca].data.is_finalized)
            => r.err /= "OK" /\ r.st = St
  /\ \A a \in LifecycleDecryptArgs :
       LET r == process_decrypt_results(St, now, a)
       IN (/\ St.poll[a.pa].data.id = a.poll_id
           /\ St.vote_count[a.ca].data.poll_id = a.poll_id
           /\ St.vote_count[a.ca].data.is_finalized)
            => r.err /= "OK" /\ r.st = St

\* C9: a poll account that holds a poll with is_active = false holds no poll
\* with is_active = true after any step.
C9_InactivePollStaysInactive ==
  [][\A pa \in PollAccounts :
       (poll_account[pa].data.creator /= ZeroKey /\ ~poll_account[pa].data.is_active)
         => ~poll_account'[pa].data.is_active]_vars

\* C10: a delegation account that holds a delegation with is_active = false
\* holds no delegation with is_active = true after any step.
C10_RevokedDelegationStaysRevoked ==
  [][\A da \in DelegationAccounts :
       (delegation_account[da].data.delegator /= ZeroKey
          /\ ~delegation_account[da].data.is_active)
         => ~delegation_account'[da].data.is_active]_vars

(***************************************************************************)
(* The voting window of CastVote                                           *)
(***************************************************************************)
\* the inputs of SpecWindow: one poll in the clear with its own tally and registry
WindowCreateArgs == CreatePollArgsOf({1}, {1}, {FALSE})
WindowCastArgs == CastVoteArgsOf({1}, {1}, {NoPayload})

NextWindow ==
  \/ Tick
  \/ \E a \in WindowCreateArgs : CreatePoll(a)
  \/ \E a \in CancelPollArgs : CancelPoll(a)
  \/ \E a \in ClosePollArgs : ClosePoll(a)
  \/ \E a \in WindowCastArgs : CastVote(a)

\* casting votes before, within and after the window of a poll, open or closed
SpecWindow == Init /\ [][NextWindow]_vars

\* the error CastVote reports for the first of its checks on the poll that the
\* call fails, "none" when the call passes them all
WindowError(poll, t, a) ==
  IF ~poll.is_active THEN "PollNotActive"
  ELSE IF t < poll.start_time THEN "PollNotStarted"
  ELSE IF t > poll.end_time THEN "PollEnded"
  ELSE IF a.option_index >= Len(poll.options) THEN "InvalidOptionIndex"
  ELSE "none"

\* C11: a CastVote that names the poll succeeds only when the poll is active,
\* start_time <= now <= end_time and option_index < number of options; when
\* one of these fails, the call fails with PollNotActive, PollNotStarted,
\* PollEnded or InvalidOptionIndex (the first that applies, in this order) and
\* changes no record; when all hold, it fails with none of these four errors.
C11_CastVoteWindow ==
  \A a \in WindowCastArgs :
    LET r == process_cast_vote(St, now, a)
        poll == St.poll[a.pa].data
        e == WindowError(poll, now, a)
    IN poll.id = a.poll_id
         => /\ e /= "none" => (r.err = e /\ r.st = St)
            /\ e = "none" => r.err \notin {"PollNotActive", "PollNotStarted",
                                           "PollEnded", "InvalidOptionIndex"}
            /\ r.err = "OK"
                 => /\ poll.is_active
                    /\ poll.start_time <= now /\ now <= poll.end_time
                    /\ a.option_index < Len(poll.options)

\* C11 witness: a Vote recorded at now = end_time of its poll, and afterwards
\* a CastVote rejected with PollEnded.
C11_Witness ==
  /\ res = [op |-> "CastVote", err |-> "PollEnded"]
  /\ \E va \in VoteAccounts :
       /\ vote_account[va].data.poll_id = poll_account[1].data.id
       /\ vote_account[va].data.voter /= ZeroKey
       /\ vote_account[va].data.timestamp = poll_account[1].data.end_time

(***************************************************************************)
(* CancelPoll, ClosePoll, DecryptResults and GetResults                    *)
(***************************************************************************)
\* the outcome of CancelPoll by the first check the call fails
CancelError(poll, t, a) ==
  IF poll.id /= a.poll_id THEN "PollDoesNotExist"
  ELSE IF poll.creator /= a.caller THEN "NotPollCreator"
  ELSE IF t >= poll.start_time THEN "PollAlreadyStarted"
  ELSE "OK"

\* C12: CancelPoll succeeds exactly when the call names the poll, the caller is
\* the poll's creator and now < start_time, and then only sets is_active to
\* false; a poll_id mismatch gets PollDoesNotExist, a non-creator
\* NotPollCreator, a call at now >= start_time PollAlreadyStarted, and a
\* failed call changes no record.
C12_CancelPoll ==
  \A a \in CancelPollArgs :
    LET r == process_cancel_poll(St, now, a)
        poll == St.poll[a.pa].data
    IN /\ r.err = CancelError(poll, now, a)
       /\ r.err /= "OK" => r.st = St
       /\ r.err = "OK"
            => r.st = [St EXCEPT !.poll[a.pa].data.is_active = FALSE]

\* C12 witness: a poll cancelled before its start_time.
C12_Witness ==
  /\ res = [op |-> "CancelPoll", err |-> "OK"]
  /\ poll_account[1].data.creator = KeyA
  /\ ~poll_account[1].data.is_active
  /\ now < poll_account[1].data.start_time

\* C13: a ClosePoll that names an active poll succeeds exactly when the caller
\* is the creator or now > end_time, and otherwise fails with NotPollCreator;
\* on an inactive poll it fails with PollNotActive; a failed call changes no
\* record.  On success is_active becomes false and the vote count record of
\* the call gets is_finalized = true when the poll is not encrypted and is
\* left unchanged when the poll is encrypted.
C13_ClosePoll ==
  \A a \in LifecycleCloseArgs :
    LET r == process_close_poll(St, now, a)
        poll == St.poll[a.pa].data
        vote_count == St.vote_count[a.ca].data
    IN poll.id = a.poll_id
         => /\ ~poll.is_active => (r.err = "PollNotActive" /\ r.st = St)
            /\ poll.is_active
                 => /\ r.err = "OK" <=> (poll.creator = a.caller \/ now > poll.end_time)
                    /\ r.err /= "OK" => (r.err = "NotPollCreator" /\ r.st = St)
            /\ r.err = "OK"
                 => /\ r.st.poll[a.pa].data = [poll EXCEPT !.is_active = FALSE]
                    /\ ~poll.is_encrypted
                         => /\ r.st.vote_count[a.ca].data.is_finalized
                            /\ r.st.vote_count[a.ca].data.counts = vote_count.counts
                            /\ r.st.vote_count[a.ca].data.total_voters
                                 = vote_count.total_voters
                    /\ poll.is_encrypted => r.st.vote_count = St.vote_count

\* C13 witness: an encrypted poll closed with its tally not finalized.
C13_Witness ==
  /\ res = [op |-> "ClosePoll", err |-> "OK"]
  /\ poll_account[1].data.is_encrypted
  /\ ~poll_account[1].data.is_active
  /\ \E ca \in VoteCountAccounts :
       /\ vote_count_account[ca].data.poll_id = poll_account[1].data.id
       /\ ~vote_count_account[ca].data.is_finalized

\* the outcome of DecryptResults by the first check the call fails, for a call
\* that names the poll
DecryptError(poll, vote_count, t, a) ==
  IF ~poll.is_encrypted THEN "PollNotEncrypted"
  ELSE IF poll.creator /= a.caller THEN "NotPollCreator"
  ELSE IF poll.is_active /\ t <= poll.end_time THEN "PollStillActive"
  ELSE IF vote_count.poll_id /= a.poll_id THEN "InvalidAccountData"
  ELSE IF vote_count.is_finalized THEN "ResultsAlreadyFinalized"
  ELSE "OK"

\* C14: a DecryptResults that names the poll succeeds only when the poll is
\* encrypted, the caller is its creator, the poll is inactive or now > end_time
\* and the tally is not finalized; the violations get PollNotEncrypted,
\* NotPollCreator, PollStillActive and ResultsAlreadyFinalized and change no
\* record.  On success the key is stored in the Poll, is_active is false, the
\* tally has is_finalized = true and its counts and total_voters are unchanged.
C14_DecryptResults ==
  \A a \in LifecycleDecryptArgs :
    LET r == process_decrypt_results(St, now, a)
        poll == St.poll[a.pa].data
        vote_count == St.vote_count[a.ca].data
    IN poll.id = a.poll_id
         => /\ r.err = DecryptError(poll, vote_count, now, a)
            /\ r.err /= "OK" => r.st = St
            /\ r.err = "OK"
                 => /\ r.st.poll[a.pa].data
                         = [poll EXCEPT !.is_active = FALSE,
                                        !.decryption_key = Some(a.decryption_key)]
                    /\ r.st.vote_count[a.ca].data.is_finalized
                    /\ r.st.vote_count[a.ca].data.counts = vote_count.counts
                    /\ r.st.vote_count[a.ca].data.total_voters = vote_count.total_voters

\* C14 witness: an encrypted poll decrypted: key stored, poll inactive, tally
\* finalized.
C14_Witness ==
  /\ res = [op |-> "DecryptResults", err |-> "OK"]
  /\ poll_account[1].data.is_encrypted
  /\ IsSome(poll_account[1].data.decryption_key)
  /\ ~poll_account[1].data.is_active
  /\ \E ca \in VoteCountAccounts :
       /\ vote_count_account[ca].data.poll_id = poll_account[1].data.id
       /\ vote_count_account[ca].data.is_finalized

\* the inputs of SpecResults: one poll, in the clear or encrypted, and reads of
\* its results through either vote count account
ResultsCreateArgs == CreatePollArgsOf({1}, {1}, BOOLEAN)
ResultsDecryptArgs == DecryptArgsOf({1})
GetResultsArgs == PollCallArgsOf(2, VoteCountAccounts)

NextResults ==
  \/ Tick
  \/ \E a \in ResultsCreateArgs : CreatePoll(a)
  \/ \E a \in ClosePollArgs : ClosePoll(a)
  \/ \E a \in ResultsDecryptArgs : DecryptResults(a)
  \/ \E a \in GetResultsArgs : GetResults(a)

\* reading the results of a poll while it is open, closed and decrypted
SpecResults == Init /\ [][NextResults]_vars

\* C15: GetResults changes no record whatever its outcome; when it names an
\* encrypted poll and the poll's tally, not finalized, it succeeds and reports
\* no per-option counts, and every other successful call reports one count per
\* option.
C15_GetResultsReadsOnly ==
  \A a \in GetResultsArgs :
    LET r == process_get_results(St, now, a)
        poll == St.poll[a.pa].data
        vote_count == St.vote_count[a.ca].data
        hidden == poll.is_encrypted /\ ~vote_count.is_finalized
    IN /\ r.st = St
       /\ (poll.id = a.poll_id /\ vote_count.poll_id = a.poll_id /\ hidden)
            => r.err = "OK" /\ get_results_report(St, a) = None
       /\ (r.err = "OK" /\ ~hidden)
            => /\ IsSome(get_results_report(St, a))
               /\ Len(Unwrap(get_results_report(St, a))) = Len(poll.options)

\* C15 witness: GetResults succeeded on an encrypted poll whose tally is not
\* finalized.
C15_Witness ==
  /\ res = [op |-> "GetResults", err |-> "OK"]
  /\ poll_account[1].data.is_encrypted
  /\ poll_account[1].data.creator /= ZeroKey
  /\ vote_count_account[1].data.poll_id = poll_account[1].data.id
  /\ ~vote_count_account[1].data.is_finalized

(***************************************************************************)
(* CastVote on an encrypted poll                                           *)
(***************************************************************************)
\* ciphertext without a nonce, and a nonce without ciphertext
DataOnlyPayload == [encrypted_data |-> Some(<<1>>), zk_proof |-> None, nonce |-> None]
NonceOnlyPayload == [encrypted_data |-> None, zk_proof |-> None, nonce |-> Some(<<2>>)]

\* the inputs of SpecEncrypted: one encrypted poll and ballots with every payload
EncryptedCreateArgs == CreatePollArgsOf({1}, {1}, {TRUE})
EncryptedCastArgs ==
  CastVoteArgsOf({1}, {1}, Payloads \cup {DataOnlyPayload, NonceOnlyPayload})

NextEncrypted ==
  \/ Tick
  \/ \E a \in EncryptedCreateArgs : CreatePoll(a)
  \/ \E a \in EncryptedCastArgs : CastVote(a)

\* casting ballots on an encrypted poll
SpecEncrypted == Init /\ [][NextEncrypted]_vars

\* C16: on an encrypted poll, a CastVote that passes the checks on the poll and
\* on the registry fails with InvalidEncryption when it carries no
\* encrypted_data and with MissingNonce when it carries encrypted_data but no
\* nonce, changing no record; with both it succeeds, the Vote record holds
\* both, and total_voters grows by 1 for a voter not yet registered.
C16_EncryptedBallot ==
  \A a \in EncryptedCastArgs :
    LET r == process_cast_vote(St, now, a)
        poll == St.poll[a.pa].data
        registered == a.caller \in SeqToSet(St.voter_registry[a.ra].data.voters)
    IN (/\ poll.is_encrypted
        /\ PollAccepts(St, now, a)
        /\ ~(registered /\ ~poll.allow_revote))
         => /\ ~IsSome(a.encrypted_data)
                 => (r.err = "InvalidEncryption" /\ r.st = St)
            /\ (IsSome(a.encrypted_data) /\ ~IsSome(a.nonce))
                 => (r.err = "MissingNonce" /\ r.st = St)
            /\ (IsSome(a.encrypted_data) /\ IsSome(a.nonce))
                 => /\ r.err = "OK"
                    /\ r.st.vote[a.va].data.encrypted_data = a.encrypted_data
                    /\ r.st.vote[a.va].data.nonce = a.nonce
                    /\ ~registered
                         => r.st.vote_count[a.ca].data.total_voters
                              = St.vote_count[a.ca].data.total_voters + 1

\* C16 witness: a ballot with ciphertext and nonce recorded on an encrypted
\* poll, and a later ballot without nonce rejected.
C16_Witness ==
  /\ res = [op |-> "CastVote", err |-> "MissingNonce"]
  /\ poll_account[1].data.is_encrypted
  /\ vote_count_account[1].data.total_voters = 1
  /\ \E va \in VoteAccounts :
       /\ vote_account[va].data.poll_id = poll_account[1].data.id
       /\ IsSome(vote_account[va].data.encrypted_data)
       /\ IsSome(vote_account[va].data.nonce)

(***************************************************************************)
(* Weighted voting: token balances, the early voter bonus, delegation      *)
(***************************************************************************)
\* the balance KeyA records for the weight token
BalanceAmount == 100
\* the early voter bonus of the polls, in percent
BonusPercent == 10
\* the weight a caller asserts in the instruction
AssertedWeight == 3

WeightedBalanceArgs ==
  {Merge(GoodShape(3), [caller |-> KeyA, ba |-> 1, token |-> Token1, amount |-> BalanceAmount])}

WeightedDelegateArgs ==
  {a \in DelegateVoteArgs : a.caller = KeyA /\ a.da = 1 /\ a.expiration = None}

\* CreatePoll by KeyA of a one-vote poll open over [1, 2], weighted by Token1 or not
WeightedCreateArgs ==
  {Merge(GoodShape(5),
         [caller |-> KeyA, pa |-> 1, ca |-> 1, ra |-> 1, title |-> 1, description |-> 0,
          options |-> <<1, 1>>, start_time |-> 1, end_time |-> 2,
          is_private |-> FALSE, allow_revote |-> FALSE, is_weighted |-> w,
          allow_delegation |-> d, is_encrypted |-> FALSE,
          weight_token |-> IF w THEN Some(Token1) ELSE None,
          early_voter_bonus |-> BonusPercent]) :
     w \in BOOLEAN, d \in BOOLEAN}

\* the accounts passed after the five required ones: none, the caller's token
\* balance, or the caller's delegation followed by the token balance
ExtraAccounts ==
  {<<>>, <<<<"token_balance", 1>>>>, <<<<"delegation", 1>>, <<"token_balance", 1>>>>}

WeightedCastArgs ==
  {Merge([n_accounts |-> 5 + Len(x), extra |-> x, weight |-> w], a) :
     x \in ExtraAccounts, w \in {None, Some(AssertedWeight)},
     a \in {b \in CastVoteArgsOf({1}, {1}, {NoPayload}) :
              b.caller = KeyA /\ b.option_index = 0}}

NextWeighted ==
  \/ Tick
  \/ \E a \in WeightedBalanceArgs : UpdateTokenBalance(a)
  \/ \E a \in WeightedDelegateArgs : DelegateVote(a)
  \/ \E a \in WeightedCreateArgs : CreatePoll(a)
  \/ \E a \in WeightedCastArgs : CastVote(a)

\* votes on weighted polls: balances, delegations, polls, ballots
SpecWeighted == Init /\ [][NextWeighted]_vars

\* the token balance record a call passes in the token balance position
SuppliedBalance(s, a) == s.token_balance[a.extra[2][2]].data

\* a call on a weighted poll whose token balance record passes the checks of
\* lines 876-888
BalanceWeighted(s, a, poll) ==
  /\ poll.is_weighted
  /\ poll.early_voter_bonus > 0
  /\ Len(a.extra) >= 2
  /\ cast_weight(s, poll.start_time, a, poll).err = "OK"

\* C17: for a weighted poll with early_voter_bonus B and a token balance A, the
\* weight resolved at any time t in [start_time, end_time] lies in
\* [A, ceil(A * (1 + B/100))], does not increase with t, and is A at end_time
C17_BonusWeightRange ==
  \A a \in WeightedCastArgs :
    LET poll == St.poll[a.pa].data
        A == SuppliedBalance(St, a).amount
        B == poll.early_voter_bonus
        W(t) == cast_weight(St, t, a, poll).weight
    IN BalanceWeighted(St, a, poll) =>
         /\ \A t \in poll.start_time..poll.end_time :
              W(t) >= A /\ W(t) <= CeilDiv(A * (100 + B), 100)
         /\ \A t1, t2 \in poll.start_time..poll.end_time : t1 <= t2 => W(t2) <= W(t1)
         /\ W(poll.end_time) = A

\* C18: on a weighted poll with early_voter_bonus 10 and a token balance of
\* 100, a vote cast exactly at start_time is recorded with weight 110
C18_WeightAtStart ==
  \A a \in WeightedCastArgs :
    LET poll == St.poll[a.pa].data
        r == process_cast_vote(St, now, a)
    IN (/\ BalanceWeighted(St, a, poll)
        /\ poll.early_voter_bonus = 10
        /\ SuppliedBalance(St, a).amount = 100
        /\ now = poll.start_time
        /\ r.err = "OK")
       => r.st.vote[a.va].data.weight = 110

\* the call a without the accounts after the five required ones
WithoutExtra(a) == [a EXCEPT !.extra = <<>>, !.n_accounts = 5]

\* C19: on a weighted poll with allow_delegation = false, a CastVote that
\* passes the voter's own token balance for the weight token after the five
\* required accounts, and no delegation, succeeds; the recorded weight is
\* derived from the balance (above it while the bonus applies), counts[option]
\* is that weight and total_voters is 1
C19_BalanceWithoutDelegation ==
  \A a \in WeightedCastArgs :
    LET poll == St.poll[a.pa].data
        balance == St.token_balance[a.extra[1][2]].data
        r == process_cast_vote(St, now, a)
        weight == r.st.vote[a.va].data.weight
    IN (/\ poll.is_weighted
        /\ ~poll.allow_delegation
        /\ a.extra = <<<<"token_balance", 1>>>>
        /\ balance.owner = a.caller
        /\ Some(balance.token) = poll.weight_token
        /\ St.vote_count[a.ca].data.total_voters = 0
        /\ process_cast_vote(St, now, WithoutExtra(a)).err = "OK")
       => /\ r.err = "OK"
          /\ weight >= balance.amount
          /\ (poll.early_voter_bonus > 0 /\ now < poll.end_time => weight > balance.amount)
          /\ r.st.vote_count[a.ca].data.counts[a.option_index + 1] = weight
          /\ r.st.vote_count[a.ca].data.total_voters = 1

\* the call a passes no token balance record
NoBalanceSupplied(a) == \A i \in 1..Len(a.extra) : a.extra[i][1] /= "token_balance"

\* C20: the weight CastVote records is 1 on a poll that is not weighted,
\* whatever weight the caller asserts; on a weighted poll with no token balance
\* record passed it is the asserted weight, or 1 when none is asserted
C20_RecordedWeight ==
  \A a \in WeightedCastArgs :
    LET poll == St.poll[a.pa].data
        r == process_cast_vote(St, now, a)
        weight == r.st.vote[a.va].data.weight
    IN r.err = "OK" =>
         /\ ~poll.is_weighted => weight = 1
         /\ poll.is_weighted /\ NoBalanceSupplied(a) =>
              weight = (IF a.weight = None THEN 1 ELSE Unwrap(a.weight))

\* a vote of the asserted weight on a weighted poll
C20_Witness ==
  /\ res = [op |-> "CastVote", err |-> "OK"]
  /\ poll_account[1].data.is_weighted
  /\ vote_account[1].data.poll_id = poll_account[1].data.id
  /\ vote_account[1].data.weight = AssertedWeight
  /\ vote_count_account[1].data.counts[1] = AssertedWeight

(***************************************************************************)
(* Delegated votes: delegate, revoke, vote through a delegation            *)
(***************************************************************************)
\* DelegateVote by KeyA to KeyB, for every poll or for the poll of one id,
\* without expiration or expiring at 1
ScopedDelegateArgs ==
  {Merge(GoodShape(3),
         [caller |-> KeyA, da |-> 1, delegate |-> KeyB, poll_id |-> p, expiration |-> e]) :
     p \in {None, Some(1), Some(2)}, e \in {None, Some(1)}}

ScopedRevokeArgs == {a \in RevokeDelegationArgs : a.da = 1}

\* CreatePoll by KeyA of a one-vote poll open over [1, 2], with or without delegation
DelegatedCreateArgs ==
  {[a EXCEPT !.allow_delegation = d] :
     d \in BOOLEAN, a \in {b \in CreatePollArgsOf({1}, {1}, {FALSE}) : ~b.allow_revote}}

\* CastVote for option 0, alone or with delegation account 1
DelegatedCastArgs ==
  {Merge([n_accounts |-> 5 + Len(x), extra |-> x], a) :
     x \in {<<>>, <<<<"delegation", 1>>>>},
     a \in {b \in CastVoteArgsOf({1}, {1}, {NoPayload}) : b.option_index = 0}}

NextDelegated ==
  \/ Tick
  \/ \E a \in ScopedDelegateArgs : DelegateVote(a)
  \/ \E a \in ScopedRevokeArgs : RevokeDelegation(a)
  \/ \E a \in DelegatedCreateArgs : CreatePoll(a)
  \/ \E a \in DelegatedCastArgs : CastVote(a)

\* votes cast through a delegation
SpecDelegated == Init /\ [][NextDelegated]_vars

\* the delegation record a call passes in the delegation position
SuppliedDelegation(s, a) == s.delegation[a.extra[1][2]].data

\* the outcome lines 811-846 give a call that passes the delegation record d
DelegationError(poll, d, t, a) ==
  IF ~poll.allow_delegation THEN "InvalidDelegation"
  ELSE IF d.delegator /= a.caller THEN "InvalidDelegation"
  ELSE IF ~d.is_active THEN "InvalidDelegation"
  ELSE IF IsSome(d.poll_id) /\ Unwrap(d.poll_id) /= a.poll_id THEN "InvalidDelegation"
  ELSE IF IsSome(d.expiration) /\ t > Unwrap(d.expiration) THEN "DelegationExpired"
  ELSE "OK"

RevokeOutcome ==
  \A a \in ScopedRevokeArgs :
    LET d == St.delegation[a.da].data
        r == process_revoke_delegation(St, now, a)
    IN /\ r.err = "OK" =>
            /\ d.id = a.delegation_id /\ d.delegator = a.caller
            /\ r.st.delegation[a.da].data = [d EXCEPT !.is_active = FALSE]
       /\ d.id /= a.delegation_id => r.err = "DelegationNotFound" /\ r.st = St
       /\ d.id = a.delegation_id /\ d.delegator /= a.caller =>
            r.err = "NotDelegator" /\ r.st = St

\* no CastVote that passes delegation account 1 gets through the delegation
\* checks
RevokedForCastVote ==
  \A a \in DelegatedCastArgs :
    Len(a.extra) = 1 =>
      /\ process_cast_vote(St, now, a).err /= "OK"
      /\ process_cast_vote(St, now, WithoutExtra(a)).err = "OK" =>
           process_cast_vote(St, now, a).err = "InvalidDelegation"

\* delegation account 1 holds a delegation that was revoked
RevokedDelegation ==
  /\ delegation_account[1].data.delegator /= ZeroKey
  /\ ~delegation_account[1].data.is_active

\* C22: RevokeDelegation succeeds only for the delegator and the matching
\* delegation_id (otherwise NotDelegator / DelegationNotFound, record
\* unchanged); it sets is_active = false, and from then on, whatever is
\* called, every CastVote that passes that Delegation record fails with
\* InvalidDelegation
C22_RevokedDelegationIsUnusable ==
  [][/\ RevokeOutcome
     /\ RevokeOutcome'
     /\ RevokedDelegation => RevokedForCastVote']_vars

(***************************************************************************)
(* The parameters of CreatePoll and the records it writes                  *)
(***************************************************************************)
\* a valid CreatePoll by KeyA and the calls that differ from it in one parameter,
\* at and just past each limit of lines 532-569
BaseCreateArgs ==
  Merge(GoodShape(5),
        [caller |-> KeyA, pa |-> 1, ca |-> 1, ra |-> 1, title |-> 1, description |-> 0,
         options |-> <<1, 1>>, start_time |-> 1, end_time |-> 2,
         is_private |-> FALSE, allow_revote |-> FALSE, is_weighted |-> FALSE,
         allow_delegation |-> FALSE, is_encrypted |-> FALSE, weight_token |-> None,
         early_voter_bonus |-> 0])

BoundsCreateArgs ==
  {BaseCreateArgs}
    \cup {[BaseCreateArgs EXCEPT !.title = n] : n \in {0, 100, 101}}
    \cup {[BaseCreateArgs EXCEPT !.description = n] : n \in {1000, 1001}}
    \cup {[BaseCreateArgs EXCEPT !.options = o] :
            o \in {<<>>, <<0, 1>>, <<1, 101>>, <<100>>,
                   [i \in 1..20 |-> 1], [i \in 1..21 |-> 1]}}
    \cup {[BaseCreateArgs EXCEPT !.start_time = w[1], !.end_time = w[2]] :
            w \in {<<2, 2>>, <<2, 1>>, <<0, 1>>, <<0, 3>>}}
    \cup {[BaseCreateArgs EXCEPT !.is_weighted = TRUE, !.weight_token = k] :
            k \in {None, Some(Token1)}}
    \cup {[BaseCreateArgs EXCEPT !.early_voter_bonus = n] : n \in {100, 101}}

NextCreate ==
  \/ Tick
  \/ \E a \in BoundsCreateArgs : CreatePoll(a)
  \/ \E a \in CancelPollArgs : CancelPoll(a)
  \/ \E a \in ClosePollArgs : ClosePoll(a)

\* polls of every admissible shape, created, cancelled and closed
SpecCreate == Init /\ [][NextCreate]_vars

\* the limits on the fields of a poll, p the instruction's parameters or a
\* stored Poll
WithinBounds(p) ==
  /\ p.title >= 1 /\ p.title <= 100
  /\ p.description <= 1000
  /\ Len(p.options) >= 1 /\ Len(p.options) <= 20
  /\ \A i \in 1..Len(p.options) : p.options[i] >= 1 /\ p.options[i] <= 100
  /\ p.start_time < p.end_time
  /\ p.is_weighted => IsSome(p.weight_token)
  /\ p.early_voter_bonus <= 100

\* C23: CreatePoll fails with InvalidPollParameters and writes nothing unless
\* the title has 1..100 bytes, the description at most 1000, there are 1..20
\* options of 1..100 bytes each, start_time < end_time, end_time > current
\* time, a weighted poll names its token and early_voter_bonus <= 100; so
\* every stored Poll is within these limits
C23_PollParameters ==
  /\ \A a \in BoundsCreateArgs :
       ~(WithinBounds(a) /\ a.end_time > now) =>
          /\ process_create_poll(St, now, a).err = "InvalidPollParameters"
          /\ process_create_poll(St, now, a).st = St
  /\ \A pa \in PollAccounts :
       poll_account[pa].data.creator /= ZeroKey => WithinBounds(poll_account[pa].data)

\* a poll with twenty options is stored after a CreatePoll was turned down
C23_Witness ==
  /\ Len(poll_account[1].data.options) = 20
  /\ res = [op |-> "CreatePoll", err |-> "InvalidPollParameters"]

\* C24: a successful CreatePoll writes a Poll with is_active = true and no
\* decryption key, a VoteCount with one zero count per option, total_voters 0
\* and is_finalized = false, and a VoterRegistry with no voters and an all-zero
\* bitmap of 1024 bytes, all three with the same poll id
C24_CreatePollWrites ==
  \A a \in BoundsCreateArgs :
    LET r == process_create_poll(St, now, a)
        poll == r.st.poll[a.pa].data
        vote_count == r.st.vote_count[a.ca].data
        voter_registry == r.st.voter_registry[a.ra].data
    IN r.err = "OK" =>
         /\ poll.is_active /\ poll.decryption_key = None
         /\ vote_count.counts = [i \in 1..Len(a.options) |-> 0]
         /\ vote_count.total_voters = 0 /\ ~vote_count.is_finalized
         /\ voter_registry.voters = <<>>
         /\ voter_registry.voter_bitmap = [len |-> 1024, bits |-> {}]
         /\ vote_count.poll_id = poll.id /\ voter_registry.poll_id = poll.id

\* a poll was created over one that had been closed
C24_Witness ==
  /\ res = [op |-> "CreatePoll", err |-> "OK"]
  /\ poll_account[1].data.is_active
  /\ ops >= 3
  /\ vote_count_account[1].data.counts = [i \in 1..Len(poll_account[1].data.options) |-> 0]
  /\ voter_registry_account[1].data.voter_bitmap.len = 1024

(***************************************************************************)
(* Changing a vote                                                         *)
(***************************************************************************)
NextChange ==
  \/ Tick
  \/ \E a \in WindowCreateArgs : CreatePoll(a)
  \/ \E a \in CancelPollArgs : CancelPoll(a)
  \/ \E a \in WindowCastArgs : CastVote(a)
  \/ \E a \in ChangeVoteArgs : ChangeVote(a)

\* one poll with its own tally and registry: cast, change, cancel
SpecChange == Init /\ [][NextChange]_vars

\* the outcome lines 1024-1056 give a ChangeVote on the poll and the Vote
ChangeError(poll, vote, t, a) ==
  IF poll.id /= a.poll_id THEN "PollDoesNotExist"
  ELSE IF ~poll.is_active THEN "PollNotActive"
  ELSE IF ~poll.allow_revote THEN "RevotingNotAllowed"
  ELSE IF t < poll.start_time THEN "PollNotStarted"
  ELSE IF t > poll.end_time THEN "PollEnded"
  ELSE IF a.option_index >= Len(poll.options) THEN "InvalidOptionIndex"
  ELSE IF vote.voter /= a.caller \/ vote.poll_id /= a.poll_id THEN "InvalidAccountData"
  ELSE "OK"

\* C25: ChangeVote succeeds only on an active poll with allow_revote = true
\* (else RevotingNotAllowed), within [start_time, end_time], with a valid new
\* option, and only when the Vote belongs to the caller and to the poll; on
\* success the stored weight is kept, counts[old option] is decremented
\* (stopping at zero) and counts[new option] incremented by that weight, the
\* Vote gets the new option and the current time, and total_voters is kept
C25_ChangeVote ==
  \A a \in ChangeVoteArgs :
    LET poll == St.poll[a.pa].data
        old == St.vote[a.va].data
        before == St.vote_count[a.ca].data
        r == process_change_vote(St, now, a)
        vote == r.st.vote[a.va].data
        after == r.st.vote_count[a.ca].data
    IN /\ r.err = ChangeError(poll, old, now, a)
       /\ r.err /= "OK" => r.st = St
       /\ r.err = "OK" =>
            /\ vote.weight = old.weight
            /\ vote.option_index = a.option_index /\ vote.timestamp = now
            /\ vote.voter = old.voter /\ vote.poll_id = old.poll_id
            /\ after.counts
                 = count_add(count_sub(before.counts, old.option_index, old.weight),
                             a.option_index, old.weight)
            /\ after.total_voters = before.total_voters

\* a vote for option 0 was changed to option 1 and the tally followed
C25_Witness ==
  /\ res = [op |-> "ChangeVote", err |-> "OK"]
  /\ \E va \in VoteAccounts :
       /\ vote_account[va].data.poll_id = poll_account[1].data.id
       /\ vote_account[va].data.option_index = 1
       /\ vote_account[va].data.timestamp = now
  /\ vote_count_account[1].data.counts = <<0, 1>>
  /\ vote_count_account[1].data.total_voters = 1

(***************************************************************************)
(* Failed calls: what a call that returns an error leaves behind           *)
(***************************************************************************)
\* the fee transaction of a call: well formed, not a transaction, without input
FeeTransactions == {"ok", "undecodable", "noinput"}

WithFees(Args) == {[a EXCEPT !.tx = x] : a \in Args, x \in FeeTransactions}

\* calls by KeyA on a poll that allows revoting; ballots name vote count
\* account 1 or 2
FailingCreateArgs == WithFees({a \in WindowCreateArgs : a.allow_revote})
FailingCastArgs ==
  WithFees({a \in CastVoteArgsOf(VoteCountAccounts, {1}, {NoPayload}) :
              a.caller = KeyA /\ a.option_index <= 1})
FailingChangeArgs ==
  WithFees({a \in ChangeVoteArgsOf(VoteCountAccounts, {NoPayload}) :
              a.caller = KeyA /\ a.option_index <= 1})
FailingCloseArgs == WithFees({a \in ClosePollArgs : a.caller = KeyA})
FailingDelegateArgs ==
  WithFees({a \in DelegateVoteArgs : a.caller = KeyA /\ a.da = 1 /\ a.expiration = None})
FailingBalanceArgs == WithFees(WeightedBalanceArgs)

\* vote count account 2 has been handed no space yet: it holds no bytes
InitUnallocated ==
  /\ now = 0
  /\ ops = 0
  /\ poll_account = [i \in PollAccounts |-> [len |-> BufLen, data |-> ZeroPoll]]
  /\ vote_count_account =
       [i \in VoteCountAccounts |->
          [len |-> IF i = 1 THEN BufLen ELSE 0, data |-> ZeroVoteCount]]
  /\ voter_registry_account =
       [i \in RegistryAccounts |-> [len |-> BufLen, data |-> ZeroVoterRegistry]]
  /\ vote_account = [i \in VoteAccounts |-> [len |-> BufLen, data |-> ZeroVote]]
  /\ delegation_account =
       [i \in DelegationAccounts |-> [len |-> BufLen, data |-> ZeroDelegation]]
  /\ token_balance_account =
       [i \in BalanceAccounts |-> [len |-> BufLen, data |-> ZeroTokenBalance]]
  /\ res = [op |-> "none", err |-> "OK"]

NextFailing ==
  \/ Tick
  \/ \E a \in FailingCreateArgs : CreatePoll(a)
  \/ \E a \in FailingCastArgs : CastVote(a)
  \/ \E a \in FailingChangeArgs : ChangeVote(a)
  \/ \E a \in FailingCloseArgs : ClosePoll(a)
  \/ \E a \in FailingDelegateArgs : DelegateVote(a)
  \/ \E a \in FailingBalanceArgs : UpdateTokenBalance(a)

\* calls with and without a usable fee transaction
SpecFailing == InitUnallocated /\ [][NextFailing]_vars

\* the outcomes of every call a caller can make in the current state
FailingOutcomes ==
  {process_create_poll(St, now, a) : a \in FailingCreateArgs}
    \cup {process_cast_vote(St, now, a) : a \in FailingCastArgs}
    \cup {process_change_vote(St, now, a) : a \in FailingChangeArgs}
    \cup {process_close_poll(St, now, a) : a \in FailingCloseArgs}
    \cup {process_delegate_vote(St, now, a) : a \in FailingDelegateArgs}
    \cup {process_update_token_balance(St, now, a) : a \in FailingBalanceArgs}

FeeErrors == {"InvalidFeeTransaction", "InsufficientFees"}

\* a call of handler Op that succeeds with a well-formed fee transaction fails
\* with the fee error of the fee transaction it carries instead
FeeRule(Op(_, _, _), Args) ==
  \A a \in Args :
    Op(St, now, [a EXCEPT !.tx = "ok"]).err = "OK" =>
      Op(St, now, a).err = process_fee_transaction(a.tx)

\* C26: a mutating operation whose fee transaction is undecodable fails with
\* InvalidFeeTransaction, one whose fee transaction has no input with
\* InsufficientFees; after either failure every record is as it was before
\* the call
C26_FeeFailureLeavesNoTrace ==
  /\ FeeRule(process_create_poll, FailingCreateArgs)
  /\ FeeRule(process_cast_vote, FailingCastArgs)
  /\ FeeRule(process_change_vote, FailingChangeArgs)
  /\ FeeRule(process_close_poll, FailingCloseArgs)
  /\ FeeRule(process_delegate_vote, FailingDelegateArgs)
  /\ FeeRule(process_update_token_balance, FailingBalanceArgs)
  /\ \A r \in FailingOutcomes : r.err \in FeeErrors => r.st = St

\* C27: when a call fails with a shape, validation, authorization,
\* temporal-state or domain error, no record has been modified
C27_FailedCheckLeavesNoTrace ==
  \A r \in FailingOutcomes : r.err \notin FeeErrors \cup {"OK", "Panic"} => r.st = St

(***************************************************************************)
(* Records that outgrow their buffer                                       *)
(***************************************************************************)
\* accounts that have been handed no space yet: the poll account, the vote
\* accounts and registry account 2 hold no bytes, so that the first write
\* sizes them to the record written
InitTight ==
  /\ now = 0
  /\ ops = 0
  /\ poll_account = [i \in PollAccounts |-> [len |-> 0, data |-> ZeroPoll]]
  /\ vote_count_account =
       [i \in VoteCountAccounts |-> [len |-> BufLen, data |-> ZeroVoteCount]]
  /\ voter_registry_account =
       [i \in RegistryAccounts |->
          [len |-> IF i = 1 THEN BufLen ELSE 0, data |-> ZeroVoterRegistry]]
  /\ vote_account = [i \in VoteAccounts |-> [len |-> 0, data |-> ZeroVote]]
  /\ delegation_account =
       [i \in DelegationAccounts |-> [len |-> BufLen, data |-> ZeroDelegation]]
  /\ token_balance_account =
       [i \in BalanceAccounts |-> [len |-> BufLen, data |-> ZeroTokenBalance]]
  /\ res = [op |-> "none", err |-> "OK"]

\* polls in the clear and encrypted that allow revoting, on either registry
TightCreateArgs ==
  {a \in CreatePollArgsOf({1}, RegistryAccounts, BOOLEAN) : a.allow_revote}
TightCastArgs ==
  {a \in CastVoteArgsOf({1}, RegistryAccounts, Payloads) :
     a.caller = KeyA /\ a.option_index = 0 /\ a.poll_id = poll_account[a.pa].data.id}
TightChangeArgs ==
  {a \in ChangeVoteArgsOf({1}, Payloads) :
     a.caller = KeyA /\ a.option_index = 1 /\ a.poll_id = poll_account[a.pa].data.id}
TightDecryptArgs ==
  {a \in DecryptArgsOf({1}) : a.caller = KeyA /\ a.poll_id = poll_account[a.pa].data.id}

NextTight ==
  \/ Tick
  \/ \E a \in TightCreateArgs : CreatePoll(a)
  \/ \E a \in TightCastArgs : CastVote(a)
  \/ \E a \in TightChangeArgs : ChangeVote(a)
  \/ \E a \in TightDecryptArgs : DecryptResults(a)

\* records written into buffers that start out empty
SpecTight == InitTight /\ [][NextTight]_vars

\* C28: every write of a record grows the buffer first when the serialized
\* record is longer than the buffer, so no write is cut short or aborts for
\* lack of space: not the VoterRegistry write of CastVote after a voter was
\* appended, nor the Vote write of ChangeVote with larger optional fields, nor
\* the Poll write of DecryptResults after the key was stored
C28_WritesGrowTheBuffer ==
  /\ \A a \in TightCastArgs : process_cast_vote(St, now, a).err /= "Panic"
  /\ \A a \in TightChangeArgs : process_change_vote(St, now, a).err /= "Panic"
  /\ \A a \in TightDecryptArgs : process_decrypt_results(St, now, a).err /= "Panic"

(***************************************************************************)
(* The vote account a ballot is written to                                 *)
(***************************************************************************)
\* CastVote by KeyA for option 0 into either vote account
AnyVoteAccountArgs ==
  {[a EXCEPT !.va = v] :
     v \in VoteAccounts,
     a \in {b \in WindowCastArgs : b.caller = KeyA /\ b.option_index = 0}}

NextBallots ==
  \/ Tick
  \/ \E a \in WindowCreateArgs : CreatePoll(a)
  \/ \E a \in AnyVoteAccountArgs : CastVote(a)

\* ballots written to the vote account the caller names
SpecBallots == Init /\ [][NextBallots]_vars

\* C29: there is at most one Vote record per (poll_id, voter): on a poll
\* without revoting no second record is created, and on a poll with revoting a
\* revote overwrites the voter's Vote record
C29_OneVotePerVoter ==
  \A v1, v2 \in VoteAccounts :
    (/\ v1 /= v2
     /\ vote_account[v1].data.voter /= ZeroKey
     /\ vote_account[v1].data.voter = vote_account[v2].data.voter)
      => vote_account[v1].data.poll_id /= vote_account[v2].data.poll_id

\* C30: a poll's voter registry only grows: a voter in the voters list stays
\* in the list of that poll's registry in every later state
C30_RegistryOnlyGrows ==
  [][\A ra \in RegistryAccounts :
       voter_registry_account'[ra].data.poll_id = voter_registry_account[ra].data.poll_id
         => SeqToSet(voter_registry_account[ra].data.voters)
              \subseteq SeqToSet(voter_registry_account'[ra].data.voters)]_vars

(***************************************************************************)
(* The order of the checks: shape first, fee last                          *)
(***************************************************************************)
\* every shape of a call that needs n accounts: one account short or not, the
\* caller signing or not, the required records writable or not, and each kind
\* of fee transaction
Shapes(n) ==
  {[n_accounts |-> k, signer |-> sg, writable |-> w, tx |-> x] :
     k \in {n - 1, n}, sg \in BOOLEAN, w \in BOOLEAN, x \in FeeTransactions}

Shaped(Args) == UNION {{Merge(sh, a) : sh \in Shapes(a.n_accounts)} : a \in Args}

\* CreatePoll by KeyA of a poll with revoting, in the clear or encrypted, and
\* of a poll weighted by Token1 whose window is empty
OrderCreateBase ==
  {a \in CreatePollArgsOf({1}, {1}, BOOLEAN) : a.allow_revote}
    \cup {[BaseCreateArgs EXCEPT !.is_weighted = TRUE, !.weight_token = Some(Token1),
                                 !.start_time = 2, !.end_time = 2]}

OrderCreateArgs == Shaped(OrderCreateBase)
\* ballots of KeyA for the poll stored in the poll account, changes of KeyA's
\* vote for that poll or another; the other calls name the stored poll
OrderCancelArgs == Shaped({a \in CancelPollArgs : a.poll_id = poll_account[a.pa].data.id})
OrderCastArgs ==
  Shaped({a \in CastVoteArgsOf({1}, {1}, Payloads) :
            /\ a.caller = KeyA /\ a.option_index = 0
            /\ a.poll_id = poll_account[a.pa].data.id})
OrderChangeArgs ==
  Shaped({a \in ChangeVoteArgsOf({1}, {NoPayload}) :
            a.caller = KeyA /\ a.option_index = 1})
OrderCloseArgs == Shaped({a \in ClosePollArgs : a.poll_id = poll_account[a.pa].data.id})
\* DecryptResults with every vote account writable, or of a good shape but for
\* a vote account that is not writable
OrderDecryptBase == {a \in DecryptArgsOf({1}) : a.poll_id = poll_account[a.pa].data.id}
OrderDecryptArgs ==
  Shaped(OrderDecryptBase)
    \cup {[a EXCEPT !.votes_writable = FALSE, !.tx = x] :
            a \in OrderDecryptBase, x \in FeeTransactions}
OrderResultsArgs ==
  {[a EXCEPT !.n_accounts = k] : k \in {1, 2}, a \in PollCallArgsOf(2, {1})}

NextOrder ==
  \/ Tick
  \/ \E a \in OrderCreateArgs : CreatePoll(a)
  \/ \E a \in OrderCancelArgs : CancelPoll(a)
  \/ \E a \in OrderCastArgs : CastVote(a)
  \/ \E a \in OrderChangeArgs : ChangeVote(a)
  \/ \E a \in OrderCloseArgs : ClosePoll(a)
  \/ \E a \in OrderDecryptArgs : DecryptResults(a)
  \/ \E a \in OrderResultsArgs : GetResults(a)

\* calls of every shape, on polls in every stage of their life
SpecOrder == Init /\ [][NextOrder]_vars

\* calls of the delegation and balance handlers, of every shape
OrderDelegateArgs ==
  Shaped({a \in DelegateVoteArgs : a.caller = KeyA /\ a.da = 1 /\ a.expiration /= None})
OrderRevokeArgs == Shaped({a \in ScopedRevokeArgs : a.caller = KeyB})
OrderBalanceArgs == Shaped(WeightedBalanceArgs)

\* the shape errors of a call that needs min accounts
ShapeErrorsOf(a, min) ==
  (IF a.n_accounts < min THEN {"NotEnoughAccountKeys"} ELSE {})
    \cup (IF ~a.signer THEN {"MissingRequiredSignature"} ELSE {})
    \cup (IF ~a.writable THEN {"InvalidAccountData"} ELSE {})

\* the accounts CreatePoll needs for its parameters
CreateAccounts(a) == IF a.is_weighted /\ IsSome(a.weight_token) THEN 5 ELSE 4

\* r is the outcome of call a, which needs min accounts, and ok the outcome of
\* the same call with a well-formed fee transaction: a call that has a shape
\* error reports one of its shape errors, and a call reports a fee error only
\* if it passes every other check
InOrder(r, ok, a, min) ==
  /\ ShapeErrorsOf(a, min) /= {} => r.err \in ShapeErrorsOf(a, min)
  /\ r.err \in FeeErrors => ok.err = "OK"

WithGoodFee(a) == [a EXCEPT !.tx = "ok"]

\* C31: in every handler a call that has a shape error (too few accounts, no
\* signer flag, a required record not writable) reports a shape error,
\* whatever other check it fails as well, and a fee error is reported only when
\* the call passes every other check
C31_ShapeFirstFeeLast ==
  /\ \A a \in OrderCreateArgs :
       InOrder(process_create_poll(St, now, a),
               process_create_poll(St, now, WithGoodFee(a)), a, CreateAccounts(a))
  /\ \A a \in OrderCancelArgs :
       InOrder(process_cancel_poll(St, now, a),
               process_cancel_poll(St, now, WithGoodFee(a)), a, 2)
  /\ \A a \in OrderCastArgs :
       InOrder(process_cast_vote(St, now, a),
               process_cast_vote(St, now, WithGoodFee(a)), a, 5)
  /\ \A a \in OrderChangeArgs :
       InOrder(process_change_vote(St, now, a),
               process_change_vote(St, now, WithGoodFee(a)), a, 4)
  /\ \A a \in OrderCloseArgs :
       InOrder(process_close_poll(St, now, a),
               process_close_poll(St, now, WithGoodFee(a)), a, 3)
  /\ \A a \in OrderDecryptArgs :
       InOrder(process_decrypt_results(St, now, a),
               process_decrypt_results(St, now, WithGoodFee(a)),
               [a EXCEPT !.writable = a.writable /\ a.votes_writable], 3)
  /\ \A a \in OrderResultsArgs :
       InOrder(process_get_results(St, now, a),
               process_get_results(St, now, WithGoodFee(a)), a, 2)
  /\ \A a \in OrderDelegateArgs :
       InOrder(process_delegate_vote(St, now, a),
               process_delegate_vote(St, now, WithGoodFee(a)), a, 3)
  /\ \A a \in OrderRevokeArgs :
       InOrder(process_revoke_delegation(St, now, a),
               process_revoke_delegation(St, now, WithGoodFee(a)), a, 2)
  /\ \A a \in OrderBalanceArgs :
       InOrder(process_update_token_balance(St, now, a),
               process_update_token_balance(St, now, WithGoodFee(a)), a, 3)

\* C31 witness: a CastVote without the signer flag has just been refused for it,
\* on a closed poll, where every CastVote of a good shape is refused as well
C31_Witness ==
  /\ res = [op |-> "CastVote", err |-> "MissingRequiredSignature"]
  /\ poll_account[1].data.creator /= ZeroKey
  /\ ~poll_account[1].data.is_active
  /\ \A a \in OrderCastArgs :
       ShapeErrorsOf(a, 5) = {}
         => process_cast_vote(St, now, a).err = "PollNotActive"

(***************************************************************************)
(* The membership lookup of the voter registry                             *)
(***************************************************************************)
\* ballots for option 0 of the stored poll, through either registry account
RegistryCastArgs ==
  {a \in CastVoteArgsOf({1}, RegistryAccounts, {NoPayload}) :
     a.option_index = 0 /\ a.poll_id = poll_account[a.pa].data.id}

NextRegistry ==
  \/ Tick
  \/ \E a \in WindowCreateArgs : CreatePoll(a)
  \/ \E a \in RegistryCastArgs : CastVote(a)

\* voters whose keys share a bitmap bit, registered through the poll's registry
\* and through an account that holds no registry yet
SpecRegistry == Init /\ [][NextRegistry]_vars

\* the keys a lookup is made for: two that share a bitmap bit, and a third
LookupKeys == {KeyA, KeyB, KeyC}

\* C32: in every registry that CastVote has written, the lookup finds a key if
\* and only if the key is in the voters list, and at its position in the list,
\* also when another key with the same bitmap bit is listed; and the bitmap
\* bit of every listed voter is set
C32_LookupFollowsTheList ==
  \A ra \in RegistryAccounts :
    LET registry == voter_registry_account[ra].data
    IN /\ \A k \in LookupKeys :
            find_voter_index(registry, k) = Position(registry.voters, k)
       /\ \A i \in 1..Len(registry.voters) :
            /\ ByteIndex(registry.voters[i]) < registry.voter_bitmap.len
            /\ (ByteIndex(registry.voters[i]) * 8 + BitIndex(registry.voters[i]))
                 \in registry.voter_bitmap.bits

\* C32 witness: a CastVote has just registered KeyA alone in registry 1, so the
\* bit that KeyB shares with KeyA is set while KeyB is not listed
C32_Witness ==
  /\ res = [op |-> "CastVote", err |-> "OK"]
  /\ voter_registry_account[1].data.voters = <<KeyA>>
  /\ hash_pubkey(KeyA) % 8192 = hash_pubkey(KeyB) % 8192
  /\ (ByteIndex(KeyB) * 8 + BitIndex(KeyB)) \in voter_registry_account[1].data.voter_bitmap.bits
  /\ find_voter_index(voter_registry_account[1].data, KeyB) = None

(***************************************************************************)
(* Operations on disjoint records                                          *)
(***************************************************************************)
\* two sets of accounts, one per poll: account w of every kind
Worlds == {1, 2}

InitWorlds ==
  /\ now = 0
  /\ ops = 0
  /\ poll_account = [i \in Worlds |-> [len |-> BufLen, data |-> ZeroPoll]]
  /\ vote_count_account = [i \in Worlds |-> [len |-> BufLen, data |-> ZeroVoteCount]]
  /\ voter_registry_account =
       [i \in Worlds |-> [len |-> BufLen, data |-> ZeroVoterRegistry]]
  /\ vote_account = [i \in Worlds |-> [len |-> BufLen, data |-> ZeroVote]]
  /\ delegation_account = [i \in Worlds |-> [len |-> BufLen, data |-> ZeroDelegation]]
  /\ token_balance_account =
       [i \in Worlds |-> [len |-> BufLen, data |-> ZeroTokenBalance]]
  /\ res = [op |-> "none", err |-> "OK"]

\* the calls KeyA makes on the accounts of world w, each an instruction and
\* its arguments: the poll's life and its ballots in either world, delegations
\* and ballots cast through them in world 1, token balances in world 2
WorldCalls(w) ==
  {[op |-> "CreatePoll",
    a |-> [BaseCreateArgs EXCEPT !.n_accounts = 4, !.pa = w, !.ca = w, !.ra = w,
                                 !.allow_revote = TRUE, !.allow_delegation = TRUE]]}
    \cup {[op |-> "CastVote",
           a |-> Merge(Merge(GoodShape(5 + Len(x)), NoPayload),
                       [caller |-> KeyA, va |-> w, pa |-> w, ca |-> w, ra |-> w,
                        extra |-> x, poll_id |-> poll_account[w].data.id,
                        option_index |-> 0, weight |-> None])] :
            x \in IF w = 1 THEN {<<>>, <<<<"delegation", w>>>>} ELSE {<<>>}}
    \cup {[op |-> "ChangeVote",
           a |-> Merge(Merge(GoodShape(4), NoPayload),
                       [caller |-> KeyA, va |-> w, pa |-> w, ca |-> w,
                        poll_id |-> poll_account[w].data.id, option_index |-> 1])]}
    \cup {[op |-> "ClosePoll",
           a |-> Merge(GoodShape(3),
                       [caller |-> KeyA, pa |-> w, ca |-> w,
                        poll_id |-> poll_account[w].data.id])]}
    \cup (IF w = 1
          THEN {[op |-> "DelegateVote",
                 a |-> Merge(GoodShape(3),
                             [caller |-> KeyA, da |-> w, delegate |-> KeyB,
                              poll_id |-> None, expiration |-> None])]}
          ELSE {[op |-> "UpdateTokenBalance",
                 a |-> Merge(GoodShape(3),
                             [caller |-> KeyA, ba |-> w, token |-> Token1,
                              amount |-> BalanceAmount])]})

AllCalls == UNION {WorldCalls(w) : w \in Worlds}

\* process_instruction (lib.rs 360-481): the handler an instruction is given to
Run(c, s, t) ==
  CASE c.op = "CreatePoll" -> process_create_poll(s, t, c.a)
    [] c.op = "CastVote" -> process_cast_vote(s, t, c.a)
    [] c.op = "ChangeVote" -> process_change_vote(s, t, c.a)
    [] c.op = "ClosePoll" -> process_close_poll(s, t, c.a)
    [] c.op = "DelegateVote" -> process_delegate_vote(s, t, c.a)
    [] c.op = "UpdateTokenBalance" -> process_update_token_balance(s, t, c.a)

Call(c) == Apply(c.op, Run(c, St, now))

NextWorlds ==
  \/ Tick
  \/ \E c \in AllCalls : Call(c)

\* two polls, each with its own tally, registry, ballot, delegation and balance
SpecWorlds == InitWorlds /\ [][NextWorlds]_vars

\* the records a call is given: <<kind, account>> for every account it passes
Touches(c) ==
  LET a == c.a
      field(kind, f) == IF f \in DOMAIN a THEN {<<kind, a[f]>>} ELSE {}
  IN field("poll", "pa") \cup field("vote_count", "ca")
       \cup field("voter_registry", "ra") \cup field("vote", "va")
       \cup field("delegation", "da") \cup field("token_balance", "ba")
       \cup (IF "extra" \in DOMAIN a
             THEN {a.extra[i] : i \in 1..Len(a.extra)} ELSE {})

\* C33: two calls that each succeed in the current state and that are given
\* disjoint sets of records succeed in either order at the current clock
\* value, and both orders leave every record the same
C33_DisjointCallsCommute ==
  \A c1, c2 \in AllCalls :
    LET r1 == Run(c1, St, now)
        r2 == Run(c2, St, now)
        r12 == Run(c2, r1.st, now)
        r21 == Run(c1, r2.st, now)
    IN (Touches(c1) \cap Touches(c2) = {} /\ r1.err = "OK" /\ r2.err = "OK")
         => r12.err = "OK" /\ r21.err = "OK" /\ r12.st = r21.st

\* C33 witness: KeyA has voted on the poll of world 1 and then, at the same
\* clock value, on the poll of world 2, and a ChangeVote on either poll would
\* succeed now
C33_Witness ==
  /\ res = [op |-> "CastVote", err |-> "OK"]
  /\ \A w \in Worlds :
       /\ vote_account[w].data.voter = KeyA
       /\ vote_account[w].data.timestamp = now
       /\ vote_count_account[w].data.counts = <<1, 0>>
       /\ \E c \in WorldCalls(w) : c.op = "ChangeVote" /\ Run(c, St, now).err = "OK"

(***************************************************************************)
(* Finalized tallies and the polls they belong to                          *)
(***************************************************************************)
\* ballots and changes of ballots that name either vote count account
LifecycleCastArgs == CastVoteArgsOf(VoteCountAccounts, {1}, Payloads)
LifecycleChangeArgs == ChangeVoteArgsOf(VoteCountAccounts, Payloads)

\* the tally in vote count account ca is the finalized tally of the poll in
\* poll account pa
FinalizedTallyOf(s, pa, ca) ==
  /\ s.poll[pa].data.creator /= ZeroKey
  /\ s.vote_count[ca].data.poll_id = s.poll[pa].data.id
  /\ s.vote_count[ca].data.is_finalized

\* C34: in every state a poll whose tally is finalized is not active, so a
\* CastVote or ChangeVote that names the poll and its finalized tally fails
\* with PollNotActive
C34_FinalizedPollIsInactive ==
  /\ \A pa \in PollAccounts, ca \in VoteCountAccounts :
       FinalizedTallyOf(St, pa, ca) => ~poll_account[pa].data.is_active
  /\ \A a \in LifecycleCastArgs :
       (a.poll_id = poll_account[a.pa].data.id /\ FinalizedTallyOf(St, a.pa, a.ca))
         => process_cast_vote(St, now, a).err = "PollNotActive"
  /\ \A a \in LifecycleChangeArgs :
       (a.poll_id = poll_account[a.pa].data.id /\ FinalizedTallyOf(St, a.pa, a.ca))
         => process_change_vote(St, now, a).err = "PollNotActive"

\* C35: in every state the tally of an encrypted poll is finalized if and only
\* if the poll holds a decryption key, and a poll that is not encrypted holds
\* no decryption key
C35_KeyIffFinalized ==
  \A pa \in PollAccounts :
    LET poll == poll_account[pa].data
    IN poll.creator /= ZeroKey
         => /\ ~poll.is_encrypted => ~IsSome(poll.decryption_key)
            /\ \A ca \in VoteCountAccounts :
                 (poll.is_encrypted /\ vote_count_account[ca].data.poll_id = poll.id)
                   => (vote_count_account[ca].data.is_finalized
                         <=> IsSome(poll.decryption_key))

(***************************************************************************)
(* Cancelled polls                                                         *)
(***************************************************************************)
\* CreatePoll by KeyA on the accounts of world w, of a poll with revoting open
\* over [1, 2] or over [2, 3]
CancelCreateArgs ==
  {[BaseCreateArgs EXCEPT !.n_accounts = 4, !.pa = w, !.ca = w, !.ra = w,
                          !.allow_revote = TRUE,
                          !.start_time = st, !.end_time = st + 1] :
     w \in Worlds, st \in {1, 2}}

\* CancelPoll by KeyA of the poll stored in a poll account
CancelCancelArgs ==
  {Merge(GoodShape(2), [caller |-> KeyA, pa |-> w, poll_id |-> poll_account[w].data.id]) :
     w \in Worlds}

\* CastVote by KeyB for option 0 of the poll stored in a poll account, passing
\* the tally and the registry of either world
CancelCastArgs ==
  {Merge(Merge(GoodShape(5), NoPayload),
         [caller |-> KeyB, va |-> w, pa |-> w, ca |-> v, ra |-> v, extra |-> <<>>,
          poll_id |-> poll_account[w].data.id, option_index |-> 0, weight |-> None]) :
     w \in Worlds, v \in Worlds}

\* ChangeVote by KeyB to option 1, on the records of one world
CancelChangeArgs ==
  {Merge(Merge(GoodShape(4), NoPayload),
         [caller |-> KeyB, va |-> w, pa |-> w, ca |-> w,
          poll_id |-> poll_account[w].data.id, option_index |-> 1]) :
     w \in Worlds}

NextCancel ==
  \/ Tick
  \/ \E a \in CancelCreateArgs : CreatePoll(a)
  \/ \E a \in CancelCancelArgs : CancelPoll(a)
  \/ \E a \in CancelCastArgs : CastVote(a)
  \/ \E a \in CancelChangeArgs : ChangeVote(a)

\* two polls, created, cancelled before they start, and voted on
SpecCancel == InitWorlds /\ [][NextCancel]_vars

\* the poll in poll account w was cancelled and has not been created again:
\* CancelPoll is the only call of SpecCancel that clears is_active, and
\* CreatePoll sets it; no other poll has the same id
Cancelled(w) ==
  /\ poll_account[w].data.creator /= ZeroKey
  /\ ~poll_account[w].data.is_active
  /\ \A v \in Worlds \ {w} : poll_account[v].data.id /= poll_account[w].data.id
  /\ vote_count_account[w].data.poll_id = poll_account[w].data.id
  /\ voter_registry_account[w].data.poll_id = poll_account[w].data.id

\* C36: from the moment CancelPoll has succeeded on a poll and as long as
\* CreatePoll has not written the poll's records again, every count of the
\* poll's tally is 0, its total_voters is 0 and its registry lists no voter
C36_CancelledPollCountsNothing ==
  \A w \in Worlds :
    Cancelled(w)
      => /\ \A i \in 1..Len(vote_count_account[w].data.counts) :
              vote_count_account[w].data.counts[i] = 0
         /\ vote_count_account[w].data.total_voters = 0
         /\ voter_registry_account[w].data.voters = <<>>

(***************************************************************************)
(* Who can end voting while the window is open                             *)
(***************************************************************************)
\* C37: at every clock value within the window of an active poll, its last
\* value end_time included, where CastVote and ChangeVote accept a ballot, a
\* ClosePoll of that poll by a caller who is not its creator fails with
\* NotPollCreator and changes no record
C37_OnlyCreatorClosesOpenPoll ==
  \A a \in ClosePollArgs :
    LET poll == poll_account[a.pa].data
        r == process_close_poll(St, now, a)
    IN (/\ poll.id = a.poll_id /\ poll.is_active
        /\ poll.start_time <= now /\ now <= poll.end_time
        /\ a.caller /= poll.creator)
         => /\ r.err = "NotPollCreator" /\ r.st = St
            /\ \A b \in WindowCastArgs :
                 process_cast_vote(St, now, b).err
                   \notin {"PollNotActive", "PollNotStarted", "PollEnded"}

\* C37 witness: at end_time of an active poll a ClosePoll has just been refused
\* with NotPollCreator
C37_Witness ==
  /\ res = [op |-> "ClosePoll", err |-> "NotPollCreator"]
  /\ poll_account[1].data.is_active
  /\ now = poll_account[1].data.end_time

(***************************************************************************)
(* The tally against the ballots on record                                 *)
(***************************************************************************)
\* the sum of the weights of the Vote records for poll pid that name option o
\* (0-based)
WeightOn(s, pid, o) ==
  SumSeq([va \in VoteAccounts |->
            LET vote == s.vote[va].data
            IN IF vote.voter /= ZeroKey /\ vote.poll_id = pid /\ vote.option_index = o
               THEN vote.weight ELSE 0])

\* C38: when every voter passes their own Vote record and the poll's own tally
\* and registry, in every state every count of the poll's tally is at least
\* the sum of the weights of the current Vote records for that option, so the
\* decrement of a successful ChangeVote never stops at zero
C38_TallyNeverUnderCounts ==
  LET vote_count == vote_count_account[1].data
  IN /\ \A i \in 1..Len(vote_count.counts) :
          vote_count.counts[i] >= WeightOn(St, vote_count.poll_id, i - 1)
     /\ \A a \in ChangeVoteArgs :
          LET old == vote_account[a.va].data
          IN (process_change_vote(St, now, a).err = "OK"
                /\ old.option_index < Len(vote_count.counts))
               => vote_count.counts[old.option_index + 1] >= old.weight

\* every count of the tally in vote count account ca equals the sum of the
\* weights of the current Vote records of its poll for that option
TallyExact(s, ca) ==
  LET vote_count == s.vote_count[ca].data
  IN \A i \in 1..Len(vote_count.counts) :
       vote_count.counts[i] = WeightOn(s, vote_count.poll_id, i - 1)

\* C39: a successful CastVote by a voter who is not yet registered for the
\* poll, and a successful ChangeVote, made where every count of the poll's
\* tally equals the sum of the weights of the current Vote records for that
\* option, leave every count equal to that sum
C39_TallyExactWithoutRevotes ==
  /\ \A a \in CastVoteArgs :
       LET r == process_cast_vote(St, now, a)
       IN (/\ r.err = "OK"
           /\ St.vote_count[a.ca].data.poll_id = a.poll_id
           /\ a.caller \notin VotersOf(St, a.poll_id)
           /\ TallyExact(St, a.ca))
            => TallyExact(r.st, a.ca)
  /\ \A a \in ChangeVoteArgs :
       LET r == process_change_vote(St, now, a)
       IN (/\ r.err = "OK"
           /\ St.vote_count[a.ca].data.poll_id = a.poll_id
           /\ TallyExact(St, a.ca))
            => TallyExact(r.st, a.ca)

(***************************************************************************)
(* The records a call may write                                            *)
(***************************************************************************)
\* CastVote with any vote account, vote count account and registry account
BindingCastArgs ==
  {[a EXCEPT !.va = v] :
     v \in VoteAccounts,
     a \in CastVoteArgsOf(VoteCountAccounts, RegistryAccounts, {NoPayload})}

BindingChangeArgs == ChangeVoteArgsOf(VoteCountAccounts, {NoPayload})

\* C40: CastVote, ChangeVote and ClosePoll for poll P refuse a VoteCount record
\* whose poll_id is not P, and CastVote a VoterRegistry record whose poll_id is
\* not P, and leave that record as it is; CastVote leaves a Vote record of
\* another voter or of another poll as it is
C40_WritesOnlyBoundRecords ==
  /\ \A a \in BindingCastArgs :
       LET r == process_cast_vote(St, now, a)
           vote == St.vote[a.va].data
       IN /\ (St.vote_count[a.ca].data.poll_id /= a.poll_id
                \/ St.voter_registry[a.ra].data.poll_id /= a.poll_id)
               => /\ r.err /= "OK"
                  /\ r.st.vote_count[a.ca] = St.vote_count[a.ca]
                  /\ r.st.voter_registry[a.ra] = St.voter_registry[a.ra]
          /\ (vote.voter /= ZeroKey
                /\ (vote.voter /= a.caller \/ vote.poll_id /= a.poll_id))
               => r.st.vote[a.va] = St.vote[a.va]
  /\ \A a \in BindingChangeArgs :
       LET r == process_change_vote(St, now, a)
       IN St.vote_count[a.ca].data.poll_id /= a.poll_id
            => r.err /= "OK" /\ r.st.vote_count[a.ca] = St.vote_count[a.ca]
  /\ \A a \in LifecycleCloseArgs :
       LET r == process_close_poll(St, now, a)
       IN St.vote_count[a.ca].data.poll_id /= a.poll_id
            => r.err /= "OK" /\ r.st.vote_count[a.ca] = St.vote_count[a.ca]

====
